---- MODULE Spec2Model ----
(***************************************************************************)
(* Model of the llm-throttle engine: the TokenBucket primitive, the        *)
(* AsyncLock gate and the LLMThrottle engine (dual admission check,        *)
(* consume, adjustConsumption with its failure strategies, the bounded     *)
(* consumption history).                                                   *)
(*                                                                         *)
(* Representation of amounts.  The code works on JavaScript numbers; a     *)
(* bucket gains (elapsedMs / 1000) * refillRate tokens, and the engine     *)
(* builds its buckets with refillRate = perMinute / 60.  To keep that      *)
(* product exact, a bucket's capacity and available are held here as       *)
(* integer multiples of 1/Scale token (Scale = 1000 * 60), its refillRate  *)
(* as tokens per minute, and clock values as integer milliseconds.  The    *)
(* counts handed to the bucket methods, the estimates, the actual values,  *)
(* the ledger's token fields and the compensation debt are whole tokens.   *)
(* Floating-point rounding is not modelled.                                *)
(***************************************************************************)
EXTENDS Integers, Sequences, FiniteSets, TLC

VARIABLES
    now,        \* the value the injected clock returns
    engine,     \* the fields of the LLMThrottle instance ("this")
    bucket,     \* a stand-alone TokenBucket
    blast,      \* the last call made on the stand-alone bucket and its outcome
    locked,     \* AsyncLock.locked
    queue,      \* AsyncLock.queue: the callers waiting, oldest first
    pc,         \* where each concurrent caller stands
    task,       \* the operation each concurrent caller submitted
    result,     \* what each concurrent caller's call settled with
    submitted,  \* the callers in the order they called acquire
    grants,     \* the callers in the order the lock was granted to them
    engine0,    \* the engine as it was before the first submission
    storage,    \* what the storage collaborator holds
    startup     \* the initialize() call in progress: its stage and the load it awaits

vars == <<now, engine, bucket, blast, locked, queue, pc, task, result,
          submitted, grants, engine0, storage, startup>>

engineVars == <<now, engine>>
bucketVars == <<bucket, blast>>
lockVars   == <<locked, queue, pc, result>>
storeVars  == <<storage, startup>>
asyncVars  == <<task, submitted, grants, engine0, storage, startup>>

----------------------------------------------------------------------------
(* Numbers of the code *)

MsPerSecond      == 1000
SecondsPerMinute == 60
Scale            == MsPerSecond * SecondsPerMinute
RpmCost          == 1
NoValue          == -1      \* stands for JavaScript's undefined

(* Bounds of the model *)

Rpm            == 2        \* config.rpm
Tpm            == 2        \* config.tpm
RetentionMs    == 60000    \* config.historyRetentionMs
MaxRecords     == 2        \* config.maxHistoryRecords
WindowSize     == 1        \* config.efficiencyWindowSize
TickMs         == 30000    \* the smallest clock advance explored
MaxTicks       == 1        \* the clock is explored up to MaxTicks * TickMs
MaxEstimate    == 2        \* estimates and actual values range over 0..MaxEstimate
MaxDebt        == 2        \* compensation debt is explored up to MaxDebt
NumProcs       == 3        \* concurrent callers
BCapacity      == 2        \* capacity of the stand-alone bucket, in tokens
BRefillRate    == 1        \* its refill rate, in tokens per minute
BMaxTicks      == 3        \* its clock is explored over 0..BMaxTicks * TickMs

Ids        == {"a", "b"}
BlankIds   == {"", " "}
Strategies == {"strict", "warn", "compensate"}

Min(a, b) == IF a <= b THEN a ELSE b
Max(a, b) == IF a >= b THEN a ELSE b
CeilDiv(a, b) == IF a <= 0 THEN 0 ELSE ((a + b - 1) \div b)

----------------------------------------------------------------------------
(* TokenBucket *)

\* constructor: capacity and initialTokens in whole tokens, refillRate in
\* tokens per minute, clk the clock reading taken by the constructor
NewTokenBucket(capacity, perMinute, initialTokens, clk) ==
    [capacity   |-> capacity * Scale,
     available  |-> initialTokens * Scale,
     refillRate |-> perMinute,
     lastRefill |-> clk]

\* mutant: no early return when no time has passed
Refill_SignedElapsed(b, clk) ==
    [b EXCEPT
       !.available  = Min(b.capacity,
                          b.available + (clk - b.lastRefill) * b.refillRate),
       !.lastRefill = clk]

\* private refill(): (clk - lastRefill) / 1000 * refillRate tokens, capped
Refill(b, clk) ==
    IF clk - b.lastRefill <= 0
      THEN b
      ELSE [b EXCEPT
              !.available  = Min(b.capacity,
                                 b.available + (clk - b.lastRefill) * b.refillRate),
              !.lastRefill = clk]

\* get available(): refills, then reads
Available(b, clk) == Refill(b, clk).available

\* hasTokens(count); the bucket it leaves behind is Refill(b, clk) when
\* count >= 0 and b itself otherwise
HasTokens(b, clk, count) ==
    IF count < 0 THEN FALSE ELSE Refill(b, clk).available >= count * Scale

HasTokensBucket(b, clk, count) == IF count < 0 THEN b ELSE Refill(b, clk)

\* mutant: a bucket that is short gives what it has
BucketConsume_Partial(b, clk, count) ==
    IF count < 0
      THEN [b |-> b, ok |-> FALSE, threw |-> TRUE]
      ELSE LET r == Refill(b, clk) IN
           IF r.available >= count * Scale
             THEN [b |-> [r EXCEPT !.available = r.available - count * Scale],
                   ok |-> TRUE, threw |-> FALSE]
             ELSE [b |-> [r EXCEPT !.available = 0], ok |-> FALSE, threw |-> FALSE]

\* consume(count): threw for a negative count, else all or nothing
BucketConsume(b, clk, count) ==
    IF count < 0
      THEN [b |-> b, ok |-> FALSE, threw |-> TRUE]
      ELSE LET r == Refill(b, clk) IN
           IF r.available >= count * Scale
             THEN [b |-> [r EXCEPT !.available = r.available - count * Scale],
                   ok |-> TRUE, threw |-> FALSE]
             ELSE [b |-> r, ok |-> FALSE, threw |-> FALSE]

\* mutant: the refund is not capped at capacity
BucketRefund_NoCap(b, count) ==
    IF count < 0
      THEN [b |-> b, threw |-> TRUE]
      ELSE [b |-> [b EXCEPT !.available = b.available + count * Scale],
            threw |-> FALSE]

\* refund(count): no refill, capped at capacity
BucketRefund(b, count) ==
    IF count < 0
      THEN [b |-> b, threw |-> TRUE]
      ELSE [b |-> [b EXCEPT !.available = Min(b.capacity, b.available + count * Scale)],
            threw |-> FALSE]

\* timeUntilNextToken(): milliseconds until one whole token is there
TimeUntilNextToken(b, clk) ==
    LET r == Refill(b, clk) IN
    IF r.available >= 1 * Scale THEN 0
    ELSE CeilDiv(1 * Scale - r.available, r.refillRate)

\* timeUntilTokens(count)
TimeUntilTokens(b, clk, count) ==
    IF count <= 0 THEN 0
    ELSE LET r == Refill(b, clk) IN
         IF r.available >= count * Scale THEN 0
         ELSE CeilDiv(count * Scale - r.available, r.refillRate)

\* reset()
BucketReset(b, clk) == [b EXCEPT !.available = b.capacity, !.lastRefill = clk]

\* getState()
GetState(b, clk) ==
    LET r == Refill(b, clk) IN
    [available |-> r.available, capacity |-> r.capacity, lastRefill |-> r.lastRefill]

\* mutant: the capacity of the state is not compared with the bucket's
RestoreState_NoCapacityTest(b, state) ==
    IF state.available < 0 \/ state.available > state.capacity
      THEN [b |-> b, threw |-> TRUE]
      ELSE [b |-> [b EXCEPT !.available = state.available,
                            !.lastRefill = state.lastRefill],
            threw |-> FALSE]

\* restoreState(state)
RestoreState(b, state) ==
    IF state.available < 0 \/ state.available > state.capacity
      THEN [b |-> b, threw |-> TRUE]
    ELSE IF state.capacity # b.capacity
      THEN [b |-> b, threw |-> TRUE]
    ELSE [b |-> [b EXCEPT !.available = state.available,
                          !.lastRefill = state.lastRefill],
          threw |-> FALSE]

\* validateConsistency()
ValidateConsistency(b, clk) ==
    LET r == Refill(b, clk) IN
    r.available >= 0 /\ r.available <= r.capacity /\ r.capacity > 0 /\ r.refillRate > 0

----------------------------------------------------------------------------
(* AsyncLock: lk is the pair of its fields, caller the one whose promise    *)
(* sits in the queue                                                         *)

\* mutant: a caller that has to wait is put at the head of the queue
Acquire_Unshift(lk, caller) ==
    IF ~lk.locked
      THEN [locked |-> TRUE, queue |-> lk.queue, granted |-> TRUE]
      ELSE [locked |-> lk.locked, queue |-> <<caller>> \o lk.queue,
            granted |-> FALSE]

\* acquire(): granted at once when the lock is free, queued otherwise
Acquire(lk, caller) ==
    IF ~lk.locked
      THEN [locked |-> TRUE, queue |-> lk.queue, granted |-> TRUE]
      ELSE [locked |-> lk.locked, queue |-> Append(lk.queue, caller),
            granted |-> FALSE]

\* mutant: the lock is marked free although it was handed to a waiter
Release_Unlocks(lk) ==
    IF ~lk.locked
      THEN [locked |-> lk.locked, queue |-> lk.queue, next |-> 0, threw |-> TRUE]
    ELSE IF Len(lk.queue) > 0
      THEN [locked |-> FALSE, queue |-> Tail(lk.queue), next |-> Head(lk.queue),
            threw |-> FALSE]
    ELSE [locked |-> FALSE, queue |-> lk.queue, next |-> 0, threw |-> FALSE]

\* release(): throws on a free lock; else the oldest waiter is resolved and
\* the lock stays held, or, with nobody waiting, the lock is marked free.
\* next is the caller resolved, 0 for none.
Release(lk) ==
    IF ~lk.locked
      THEN [locked |-> lk.locked, queue |-> lk.queue, next |-> 0, threw |-> TRUE]
    ELSE IF Len(lk.queue) > 0
      THEN [locked |-> TRUE, queue |-> Tail(lk.queue), next |-> Head(lk.queue),
            threw |-> FALSE]
    ELSE [locked |-> FALSE, queue |-> lk.queue, next |-> 0, threw |-> FALSE]

\* mutant: the queue is emptied without its waiters being rejected
Clear_NoReject(lk) == [locked |-> FALSE, queue |-> << >>, rejected |-> << >>]

\* clear(): every waiter is rejected, the queue emptied, the lock marked free
Clear(lk) == [locked |-> FALSE, queue |-> << >>, rejected |-> lk.queue]

----------------------------------------------------------------------------
(* LLMThrottle *)

\* constructor: both buckets start full at burst capacity (burst || limit),
\* refill at limit / 60 per second; the ledger is empty and the debt 0
NewThrottle(cfg, clk) ==
    [rpmBucket |-> NewTokenBucket(IF cfg.burstRPM > 0 THEN cfg.burstRPM ELSE cfg.rpm,
                                  cfg.rpm,
                                  IF cfg.burstRPM > 0 THEN cfg.burstRPM ELSE cfg.rpm,
                                  clk),
     tpmBucket |-> NewTokenBucket(IF cfg.burstTPM > 0 THEN cfg.burstTPM ELSE cfg.tpm,
                                  cfg.tpm,
                                  IF cfg.burstTPM > 0 THEN cfg.burstTPM ELSE cfg.tpm,
                                  clk),
     consumptionHistory        |-> << >>,
     compensationDebt          |-> 0,
     historyRetentionMs        |-> cfg.historyRetentionMs,
     maxHistoryRecords         |-> cfg.maxHistoryRecords,
     efficiencyWindowSize      |-> cfg.efficiencyWindowSize,
     adjustmentFailureStrategy |-> cfg.adjustmentFailureStrategy,
     storageEnabled            |-> cfg.storage,
     initialized               |-> FALSE]

\* both buckets after a read of their available
RefillBoth(t, clk) ==
    [t EXCEPT !.rpmBucket = Refill(t.rpmBucket, clk),
              !.tpmBucket = Refill(t.tpmBucket, clk)]

\* mutant: the volume bucket is asked before the rate bucket
CanProcess_VolumeFirst(t, clk, estimatedTokens) ==
    IF estimatedTokens < 0
      THEN [threw |-> TRUE, allowed |-> FALSE, reason |-> "none",
            availableIn |-> NoValue, t |-> t]
    ELSE IF ~HasTokens(t.tpmBucket, clk, estimatedTokens)
      THEN [threw |-> FALSE, allowed |-> FALSE, reason |-> "tpm_limit",
            availableIn |-> TimeUntilTokens(t.tpmBucket, clk, estimatedTokens),
            t |-> RefillBoth(t, clk)]
    ELSE IF ~HasTokens(t.rpmBucket, clk, RpmCost)
      THEN [threw |-> FALSE, allowed |-> FALSE, reason |-> "rpm_limit",
            availableIn |-> TimeUntilNextToken(t.rpmBucket, clk),
            t |-> RefillBoth(t, clk)]
    ELSE [threw |-> FALSE, allowed |-> TRUE, reason |-> "none",
          availableIn |-> NoValue, t |-> RefillBoth(t, clk)]

\* canProcess(estimatedTokens): the rate bucket is asked first.  Every
\* branch that does not throw reads both buckets' available, so both are
\* left refilled.
CanProcess(t, clk, estimatedTokens) ==
    IF estimatedTokens < 0
      THEN [threw |-> TRUE, allowed |-> FALSE, reason |-> "none",
            availableIn |-> NoValue, t |-> t]
    ELSE IF ~HasTokens(t.rpmBucket, clk, RpmCost)
      THEN [threw |-> FALSE, allowed |-> FALSE, reason |-> "rpm_limit",
            availableIn |-> TimeUntilNextToken(t.rpmBucket, clk),
            t |-> RefillBoth(t, clk)]
    ELSE IF ~HasTokens(t.tpmBucket, clk, estimatedTokens)
      THEN [threw |-> FALSE, allowed |-> FALSE, reason |-> "tpm_limit",
            availableIn |-> TimeUntilTokens(t.tpmBucket, clk, estimatedTokens),
            t |-> RefillBoth(t, clk)]
    ELSE [threw |-> FALSE, allowed |-> TRUE, reason |-> "none",
          availableIn |-> NoValue, t |-> RefillBoth(t, clk)]

\* canProcess(estimatedTokens) with the clock read twice: hasTokens reads clk,
\* and the reads that build the result (timeUntilNextToken, timeUntilTokens,
\* available) read later
CanProcessAt(t, clk, later, estimatedTokens) ==
    LET rpm == HasTokensBucket(t.rpmBucket, clk, RpmCost)
        tpm == HasTokensBucket(t.tpmBucket, clk, estimatedTokens)
    IN
    IF estimatedTokens < 0
      THEN [threw |-> TRUE, allowed |-> FALSE, reason |-> "none",
            availableIn |-> NoValue, t |-> t]
    ELSE IF ~HasTokens(t.rpmBucket, clk, RpmCost)
      THEN [threw |-> FALSE, allowed |-> FALSE, reason |-> "rpm_limit",
            availableIn |-> TimeUntilNextToken(rpm, later),
            t |-> RefillBoth([t EXCEPT !.rpmBucket = rpm], later)]
    ELSE IF ~HasTokens(t.tpmBucket, clk, estimatedTokens)
      THEN [threw |-> FALSE, allowed |-> FALSE, reason |-> "tpm_limit",
            availableIn |-> TimeUntilTokens(tpm, later, estimatedTokens),
            t |-> RefillBoth([t EXCEPT !.rpmBucket = rpm, !.tpmBucket = tpm], later)]
    ELSE [threw |-> FALSE, allowed |-> TRUE, reason |-> "none",
          availableIn |-> NoValue,
          t |-> RefillBoth([t EXCEPT !.rpmBucket = rpm, !.tpmBucket = tpm], later)]

\* mutant: a record exactly as old as the retention window is kept
Retained_Inclusive(h, cutoff) == SelectSeq(h, LAMBDA item : item.timestamp >= cutoff)

\* the filter of cleanupHistory: records newer than the cutoff
Retained(h, cutoff) == SelectSeq(h, LAMBDA item : item.timestamp > cutoff)

\* mutant: the excess is counted one short
DropOldest_OneShort(h, max) ==
    IF Len(h) > max THEN SubSeq(h, Len(h) - max, Len(h)) ELSE h

\* splice(0, excess): the oldest records go once the ledger is over max
DropOldest(h, max) ==
    IF Len(h) > max THEN SubSeq(h, Len(h) - max + 1, Len(h)) ELSE h

\* mutant: over the limit, the newest records go instead of the oldest
CleanupHistory_KeepOldest(t, clk) ==
    LET h == Retained(t.consumptionHistory, clk - t.historyRetentionMs) IN
    [t EXCEPT !.consumptionHistory =
        IF Len(h) > t.maxHistoryRecords THEN SubSeq(h, 1, t.maxHistoryRecords) ELSE h]

\* cleanupHistory()
CleanupHistory(t, clk) ==
    [t EXCEPT !.consumptionHistory =
        DropOldest(Retained(t.consumptionHistory, clk - t.historyRetentionMs),
                   t.maxHistoryRecords)]

\* requestId.trim() === '' or an empty requestId
IsBlank(requestId) == requestId \in BlankIds

\* mutant: the outstanding debt is left out of the amount asked for
TotalTokensNeeded_NoDebt(estimatedTokens, debt) == estimatedTokens

\* totalTokensNeeded of consume
TotalTokensNeeded(estimatedTokens, debt) == estimatedTokens + debt

\* mutant: the record carries the amount debited, debt included
NewRecord_TotalTokens(clk, requestId, estimatedTokens, appliedCompensation) ==
    [timestamp        |-> clk,
     tokens           |-> estimatedTokens + appliedCompensation,
     requestId        |-> requestId,
     estimatedTokens  |-> estimatedTokens,
     actualTokens     |-> NoValue,
     compensationDebt |-> appliedCompensation]

\* the record consume builds
NewRecord(clk, requestId, estimatedTokens, appliedCompensation) ==
    [timestamp        |-> clk,
     tokens           |-> estimatedTokens,
     requestId        |-> requestId,
     estimatedTokens  |-> estimatedTokens,
     actualTokens     |-> NoValue,
     compensationDebt |-> appliedCompensation]

\* mutant: the debt is zeroed before the admission check is looked at
Denied_ClearsDebt(t, check) ==
    [t |-> [check.t EXCEPT !.compensationDebt = 0], ret |-> "false"]

\* if (!check.allowed) return false: what a denied consume leaves behind is
\* the engine as canProcess left it
Denied(t, check) == [t |-> check.t, ret |-> "false"]

\* the part of consume (and of the section of consumeAsync) after the
\* requestId test: ret is "true", "false" or "throw"
ConsumeBody(t, clk, requestId, estimatedTokens) ==
    LET totalTokensNeeded == TotalTokensNeeded(estimatedTokens, t.compensationDebt)
        check == CanProcess(t, clk, totalTokensNeeded)
    IN  IF check.threw THEN [t |-> t, ret |-> "throw"]
        ELSE IF ~check.allowed THEN Denied(t, check)
        ELSE LET r1 == BucketConsume(check.t.rpmBucket, clk, RpmCost).b
                 r2 == BucketConsume(check.t.tpmBucket, clk, totalTokensNeeded).b
                 record == NewRecord(clk, requestId, estimatedTokens,
                                     t.compensationDebt)
                 t2 == [check.t EXCEPT
                          !.rpmBucket = r1,
                          !.tpmBucket = r2,
                          !.compensationDebt = 0,
                          !.consumptionHistory = Append(@, record)]
             IN  [t |-> CleanupHistory(t2, clk), ret |-> "true"]

\* consume(requestId, estimatedTokens)
Consume(t, clk, requestId, estimatedTokens) ==
    IF IsBlank(requestId) THEN [t |-> t, ret |-> "throw"]
    ELSE ConsumeBody(t, clk, requestId, estimatedTokens)

\* consumeOrThrow(requestId, estimatedTokens) and, with one caller,
\* consumeOrThrowAsync: after a consume that returned false the error is
\* built from a second canProcess, which reads the clock again (later)
ConsumeOrThrow(t, clk, later, requestId, estimatedTokens) ==
    LET r == Consume(t, clk, requestId, estimatedTokens) IN
    IF r.ret = "throw"
      THEN [t |-> r.t, ret |-> "throw", reason |-> "none", availableIn |-> NoValue]
    ELSE IF r.ret = "true"
      THEN [t |-> r.t, ret |-> "ok", reason |-> "none", availableIn |-> NoValue]
    ELSE LET check == CanProcess(r.t, later, estimatedTokens + r.t.compensationDebt) IN
         IF check.threw
           THEN [t |-> check.t, ret |-> "throw", reason |-> "none",
                 availableIn |-> NoValue]
           ELSE [t |-> check.t, ret |-> "RateLimitError", reason |-> check.reason,
                 availableIn |-> check.availableIn]

\* consumptionHistory.find(item => item.requestId === requestId): the index
\* of the first match, 0 when there is none
FindRecord(h, requestId) ==
    IF \E i \in 1..Len(h) : h[i].requestId = requestId
      THEN CHOOSE i \in 1..Len(h) :
             /\ h[i].requestId = requestId
             /\ \A j \in 1..(i - 1) : h[j].requestId # requestId
      ELSE 0

\* mutant: 'compensate' overwrites the debt instead of adding to it
HandleAdjustmentFailure_Overwrite(t, clk, additionalTokens) ==
    IF t.adjustmentFailureStrategy = "strict"
      THEN [t |-> t, threw |-> TRUE,
            availableIn |-> TimeUntilTokens(t.tpmBucket, clk, additionalTokens)]
    ELSE IF t.adjustmentFailureStrategy = "warn"
      THEN [t |-> t, threw |-> FALSE, availableIn |-> NoValue]
    ELSE [t |-> [t EXCEPT !.compensationDebt = additionalTokens],
          threw |-> FALSE, availableIn |-> NoValue]

\* mutant: the 'strict' case does not throw and goes on as 'warn' does
HandleAdjustmentFailure_StrictWarns(t, clk, additionalTokens) ==
    IF t.adjustmentFailureStrategy \in {"strict", "warn"}
      THEN [t |-> t, threw |-> FALSE, availableIn |-> NoValue]
    ELSE [t |-> [t EXCEPT !.compensationDebt = @ + additionalTokens],
          threw |-> FALSE, availableIn |-> NoValue]

\* mutant: the 'warn' case has no break and falls into 'compensate'
HandleAdjustmentFailure_WarnFallsThrough(t, clk, additionalTokens) ==
    IF t.adjustmentFailureStrategy = "strict"
      THEN [t |-> t, threw |-> TRUE,
            availableIn |-> TimeUntilTokens(t.tpmBucket, clk, additionalTokens)]
    ELSE [t |-> [t EXCEPT !.compensationDebt = @ + additionalTokens],
          threw |-> FALSE, availableIn |-> NoValue]

\* handleAdjustmentFailureSync / handleAdjustmentFailure, entered after the
\* failed tpmBucket.consume(additionalTokens)
HandleAdjustmentFailure(t, clk, additionalTokens) ==
    IF t.adjustmentFailureStrategy = "strict"
      THEN [t |-> t, threw |-> TRUE,
            availableIn |-> TimeUntilTokens(t.tpmBucket, clk, additionalTokens)]
    ELSE IF t.adjustmentFailureStrategy = "warn"
      THEN [t |-> t, threw |-> FALSE, availableIn |-> NoValue]
    ELSE [t |-> [t EXCEPT !.compensationDebt = @ + additionalTokens],
          threw |-> FALSE, availableIn |-> NoValue]

\* mutant: the delta is taken from the first estimate, not the current tokens
Difference_FromEstimate(actualTokens, record) == actualTokens - record.estimatedTokens

\* difference = actualTokens - record.tokens
Difference(actualTokens, record) == actualTokens - record.tokens

\* record.tokens = actualTokens; record.actualTokens = actualTokens
Reconcile(h, i, actualTokens) ==
    [h EXCEPT ![i].tokens = actualTokens, ![i].actualTokens = actualTokens]

\* the part of adjustConsumption (and of the section of
\* adjustConsumptionAsync) after the actualTokens test
AdjustBody(t, clk, requestId, actualTokens) ==
    LET i == FindRecord(t.consumptionHistory, requestId) IN
    IF i = 0
      THEN [t |-> t, ret |-> "throw", err |-> "not_found", availableIn |-> NoValue]
    ELSE
      LET difference == Difference(actualTokens, t.consumptionHistory[i]) IN
      IF difference > 0 THEN
        LET c  == BucketConsume(t.tpmBucket, clk, difference)
            t1 == [t EXCEPT !.tpmBucket = c.b]
        IN  IF c.ok
              THEN [t |-> [t1 EXCEPT !.consumptionHistory = Reconcile(@, i, actualTokens)],
                    ret |-> "ok", err |-> "none", availableIn |-> NoValue]
              ELSE LET f == HandleAdjustmentFailure(t1, clk, difference) IN
                   IF f.threw
                     THEN [t |-> f.t, ret |-> "throw", err |-> "tpm_limit",
                           availableIn |-> f.availableIn]
                     ELSE [t |-> [f.t EXCEPT !.consumptionHistory =
                                                Reconcile(@, i, actualTokens)],
                           ret |-> "ok", err |-> "none", availableIn |-> NoValue]
      ELSE IF difference < 0 THEN
        [t |-> [t EXCEPT !.tpmBucket = BucketRefund(@, -difference).b,
                         !.consumptionHistory = Reconcile(@, i, actualTokens)],
         ret |-> "ok", err |-> "none", availableIn |-> NoValue]
      ELSE
        [t |-> [t EXCEPT !.consumptionHistory = Reconcile(@, i, actualTokens)],
         ret |-> "ok", err |-> "none", availableIn |-> NoValue]

\* mutant: the sign of actualTokens is not tested
AdjustConsumption_NoSignTest(t, clk, requestId, actualTokens) ==
    AdjustBody(t, clk, requestId, actualTokens)

\* adjustConsumption(requestId, actualTokens)
AdjustConsumption(t, clk, requestId, actualTokens) ==
    IF actualTokens < 0
      THEN [t |-> t, ret |-> "throw", err |-> "invalid", availableIn |-> NoValue]
      ELSE AdjustBody(t, clk, requestId, actualTokens)

\* reset()
Reset(t, clk) ==
    [t EXCEPT !.rpmBucket = BucketReset(@, clk),
              !.tpmBucket = BucketReset(@, clk),
              !.consumptionHistory = << >>,
              !.compensationDebt = 0]

\* the section of resetAsync(): the reset, then await storage.clear() when
\* a storage is configured; clearFails says that this promise rejects
ResetAsync(t, clk, clearFails) ==
    [t |-> Reset(t, clk),
     ret |-> IF t.storageEnabled /\ clearFails THEN "throw" ELSE "ok"]

\* getMetrics() / getConsumptionHistory(): the ledger is trimmed first;
\* getMetrics also reads both buckets' available
GetConsumptionHistory(t, clk) == CleanupHistory(t, clk)
GetMetricsState(t, clk) == RefillBoth(CleanupHistory(t, clk), clk)

\* numbers that need not be whole are kept as fractions num / den, den > 0
Frac(num, den) == [num |-> num, den |-> den]
FracAdd(x, y) == Frac(x.num * y.den + y.num * x.den, x.den * y.den)
FracEq(x, y) == x.num * y.den = y.num * x.den
FracLeq(x, y) == x.num * y.den <= y.num * x.den

\* the values calculateEfficiency returns without looking at a record
PerfectEfficiency == Frac(1, 1)
DefaultEfficiency == Frac(85, 100)

\* slice(-n): the last n elements
LastN(h, n) == IF Len(h) > n THEN SubSeq(h, Len(h) - n + 1, Len(h)) ELSE h

\* the filter of calculateEfficiency and getHistoryStatistics
RecordsWithActual(h) ==
    SelectSeq(h, LAMBDA record : /\ record.estimatedTokens # NoValue
                                 /\ record.actualTokens # NoValue)

\* what one record adds to totalAccuracy in calculateEfficiency
RecordEfficiency(record) ==
    IF record.estimatedTokens = 0 /\ record.actualTokens = 0 THEN Frac(1, 1)
    ELSE IF record.estimatedTokens = 0 \/ record.actualTokens = 0 THEN Frac(0, 1)
    ELSE Frac(Min(record.estimatedTokens, record.actualTokens),
              Max(record.estimatedTokens, record.actualTokens))

RECURSIVE TotalAccuracy(_)
TotalAccuracy(h) ==
    IF h = << >> THEN Frac(0, 1)
    ELSE FracAdd(RecordEfficiency(Head(h)), TotalAccuracy(Tail(h)))

\* mutant: the reconciled records are looked for in the whole ledger
CalculateEfficiency_WholeLedger(t) ==
    LET recordsWithActual == RecordsWithActual(t.consumptionHistory) IN
    IF Len(t.consumptionHistory) = 0 THEN PerfectEfficiency
    ELSE IF Len(recordsWithActual) = 0 THEN DefaultEfficiency
    ELSE LET total == TotalAccuracy(recordsWithActual) IN
         Frac(total.num, total.den * Len(recordsWithActual))

\* calculateEfficiency()
CalculateEfficiency(t) ==
    LET recentHistory == LastN(t.consumptionHistory, t.efficiencyWindowSize)
        recordsWithActual == RecordsWithActual(recentHistory)
    IN  IF Len(recentHistory) = 0 THEN PerfectEfficiency
        ELSE IF Len(recordsWithActual) = 0 THEN DefaultEfficiency
        ELSE LET total == TotalAccuracy(recordsWithActual) IN
             Frac(total.num, total.den * Len(recordsWithActual))

\* what one record adds to accuracySum in getHistoryStatistics
RecordAccuracy(record) ==
    IF record.estimatedTokens = 0 THEN Frac(1, 1)
    ELSE Frac(Min(record.estimatedTokens, record.actualTokens),
              Max(record.estimatedTokens, record.actualTokens))

RECURSIVE AccuracySum(_)
AccuracySum(h) ==
    IF h = << >> THEN Frac(0, 1)
    ELSE FracAdd(RecordAccuracy(Head(h)), AccuracySum(Tail(h)))

RECURSIVE TotalTokens(_)
TotalTokens(h) == IF h = << >> THEN 0 ELSE Head(h).tokens + TotalTokens(Tail(h))

\* getHistoryStatistics()
GetHistoryStatistics(t) ==
    LET h == t.consumptionHistory
        recordsWithActual == RecordsWithActual(h)
    IN  IF Len(h) = 0
          THEN [count |-> 0, averageTokensPerRequest |-> Frac(0, 1),
                totalTokens |-> 0, estimationAccuracy |-> Frac(1, 1)]
          ELSE [count |-> Len(h),
                averageTokensPerRequest |-> Frac(TotalTokens(h), Len(h)),
                totalTokens |-> TotalTokens(h),
                estimationAccuracy |->
                    IF Len(recordsWithActual) > 0
                      THEN LET sum == AccuracySum(recordsWithActual) IN
                           Frac(sum.num, sum.den * Len(recordsWithActual))
                      ELSE Frac(1, 1)]

\* getMetrics(): what it returns; the engine it leaves is GetMetricsState
GetMetrics(t, clk) ==
    LET t1 == GetMetricsState(t, clk) IN
    [rpm        |-> [used      |-> t1.rpmBucket.capacity - t1.rpmBucket.available,
                     available |-> t1.rpmBucket.available,
                     limit     |-> t1.rpmBucket.capacity],
     tpm        |-> [used      |-> t1.tpmBucket.capacity - t1.tpmBucket.available,
                     available |-> t1.tpmBucket.available,
                     limit     |-> t1.tpmBucket.capacity],
     efficiency |-> CalculateEfficiency(t1),
     consumptionHistory |-> GetHistoryStatistics(t1),
     memory     |-> [historyRecords    |-> Len(t1.consumptionHistory),
                     maxHistoryRecords |-> t1.maxHistoryRecords],
     compensation |-> [totalDebt |-> t1.compensationDebt,
                       pendingCompensation |-> t1.compensationDebt]]

\* consumeAsync(requestId, estimatedTokens): the same test, then the same
\* steps inside lock.withLock
ConsumeAsync(t, clk, requestId, estimatedTokens) ==
    IF IsBlank(requestId) THEN [t |-> t, ret |-> "throw"]
    ELSE ConsumeBody(t, clk, requestId, estimatedTokens)

\* createSnapshot()
CreateSnapshot(t, clk) ==
    [timestamp        |-> clk,
     rpmBucketState   |-> GetState(t.rpmBucket, clk),
     tpmBucketState   |-> GetState(t.tpmBucket, clk),
     historyCount     |-> Len(t.consumptionHistory),
     compensationDebt |-> t.compensationDebt]

\* the section of restoreFromSnapshot(snapshot): the rate bucket is restored
\* before the volume bucket is looked at
RestoreFromSnapshot(t, snapshot) ==
    LET r1 == RestoreState(t.rpmBucket, snapshot.rpmBucketState) IN
    IF r1.threw THEN [t |-> t, ret |-> "throw"]
    ELSE LET r2 == RestoreState(t.tpmBucket, snapshot.tpmBucketState) IN
         IF r2.threw THEN [t |-> [t EXCEPT !.rpmBucket = r1.b], ret |-> "throw"]
         ELSE [t |-> [t EXCEPT !.rpmBucket = r1.b,
                               !.tpmBucket = r2.b,
                               !.compensationDebt = snapshot.compensationDebt,
                               !.consumptionHistory = << >>],
               ret |-> "ok"]

\* the records repairState keeps
ValidRecords_KeepsNegative(h, clk, retentionMs) ==
    SelectSeq(h, LAMBDA record : /\ record.timestamp >= clk - retentionMs * 2
                                 /\ record.timestamp <= clk + 1000)

ValidRecords(h, clk, retentionMs) ==
    SelectSeq(h, LAMBDA record : /\ record.timestamp >= clk - retentionMs * 2
                                 /\ record.timestamp <= clk + 1000
                                 /\ record.tokens >= 0)

\* the section of repairState()
RepairState(t, clk) ==
    LET debt == IF t.compensationDebt < 0 THEN 0 ELSE t.compensationDebt
        kept == ValidRecords(t.consumptionHistory, clk, t.historyRetentionMs)
        repaired == \/ t.compensationDebt < 0
                    \/ Len(kept) # Len(t.consumptionHistory)
                    \/ Len(kept) > t.maxHistoryRecords
    IN  [t |-> [t EXCEPT !.compensationDebt = debt,
                         !.consumptionHistory = DropOldest(kept, t.maxHistoryRecords)],
         ret |-> IF repaired THEN "true" ELSE "false"]

\* setHistoryRetention(ms)
SetHistoryRetention(t, ms) ==
    IF ms <= 0 THEN [t |-> t, ret |-> "throw"]
    ELSE [t |-> [t EXCEPT !.historyRetentionMs = ms], ret |-> "ok"]

\* setMaxHistoryRecords(count)
SetMaxHistoryRecords(t, clk, count) ==
    IF count <= 0 THEN [t |-> t, ret |-> "throw"]
    ELSE [t |-> CleanupHistory([t EXCEPT !.maxHistoryRecords = count], clk),
          ret |-> "ok"]

\* TokenBucket.initializeFromStorage(): stored is the set holding the state
\* the storage returns, empty when it returns null or fails
InitializeFromStorage(b, stored) ==
    IF \E st \in stored : st.capacity = b.capacity
      THEN LET st == CHOOSE st \in stored : st.capacity = b.capacity IN
           [b EXCEPT !.available = st.available, !.lastRefill = st.lastRefill]
      ELSE b

\* InMemoryStorage.loadConsumptionHistory(limit)
LoadConsumptionHistory(records, limit) ==
    IF limit > 0 /\ Len(records) > limit
      THEN SubSeq(records, Len(records) - limit + 1, Len(records))
      ELSE records

\* initialize(): stored is what the storage holds; stored.fails names the
\* load that rejects ("none", "debt" or "history"), which ends the loading
Initialize(t, clk, stored) ==
    IF t.initialized \/ ~t.storageEnabled THEN t
    ELSE
      LET t1 == [t EXCEPT !.rpmBucket = InitializeFromStorage(@, stored.rpm),
                          !.tpmBucket = InitializeFromStorage(@, stored.tpm),
                          !.initialized = TRUE]
          t2 == IF stored.debt >= 0
                  THEN [t1 EXCEPT !.compensationDebt = stored.debt] ELSE t1
          history == LoadConsumptionHistory(stored.history, t.maxHistoryRecords)
      IN  IF stored.fails = "debt" THEN t1
          ELSE IF stored.fails = "history" \/ Len(history) = 0 THEN t2
          ELSE CleanupHistory([t2 EXCEPT !.consumptionHistory = history], clk)

\* initialize() in the pieces its awaits cut it into.  After the two bucket
\* loads have resolved: both buckets take what the storage answered
StartupBuckets(t, answer) ==
    [t EXCEPT !.rpmBucket = InitializeFromStorage(@, answer.rpm),
              !.tpmBucket = InitializeFromStorage(@, answer.tpm)]

\* after loadCompensationDebt has resolved
StartupDebt(t, storedDebt) ==
    IF storedDebt >= 0 THEN [t EXCEPT !.compensationDebt = storedDebt] ELSE t

\* after loadConsumptionHistory has resolved, the finally block included
StartupHistory(t, clk, history) ==
    LET t1 == IF Len(history) > 0
                THEN CleanupHistory([t EXCEPT !.consumptionHistory = history], clk)
                ELSE t
    IN  [t1 EXCEPT !.initialized = TRUE]

\* a load rejected: the catch block logs, the finally block marks the engine
StartupFailed(t) == [t EXCEPT !.initialized = TRUE]

\* what a consume that returned true has saved once its fire-and-forget
\* writes have arrived: both buckets' states (persistState) and the record
\* (addConsumptionRecord); t is the engine the consume left, record its record
Persisted(st, t, clk, record) ==
    [st EXCEPT !.rpm = {GetState(t.rpmBucket, clk)},
               !.tpm = {GetState(t.tpmBucket, clk)},
               !.history = Append(@, record)]

\* validateState()
ValidateState(t, clk) ==
    /\ ValidateConsistency(t.rpmBucket, clk)
    /\ ValidateConsistency(t.tpmBucket, clk)
    /\ t.compensationDebt >= 0
    /\ Len(t.consumptionHistory) * 10 <= t.maxHistoryRecords * 11
    /\ \A i \in 1..Len(t.consumptionHistory) :
         LET record == t.consumptionHistory[i] IN
         /\ record.timestamp >= clk - t.historyRetentionMs * 2
         /\ record.timestamp <= clk + 1000
         /\ record.tokens >= 0

\* snapshots handed to restoreFromSnapshot: one taken from the engine as
\* built, one whose volume bucket was taken from a larger engine, one with
\* a negative debt
Snapshots(t) ==
    LET good == CreateSnapshot(t, 0) IN
    <<good,
      [good EXCEPT !.tpmBucketState.capacity = @ + Scale,
                   !.rpmBucketState.available = 0],
      [good EXCEPT !.compensationDebt = -1]>>

\* the checks a call makes before it asks for the lock
RejectedEarly(tsk) ==
    \/ tsk.op = "consumeAsync" /\ IsBlank(tsk.id)
    \/ tsk.op = "adjustConsumptionAsync" /\ tsk.n < 0

\* the section a call runs under the lock, at clock value clk
Section(t, clk, tsk) ==
    CASE tsk.op = "consumeAsync" ->
           ConsumeAsync(t, clk, tsk.id, tsk.n)
      [] tsk.op = "adjustConsumptionAsync" ->
           LET r == AdjustConsumption(t, clk, tsk.id, tsk.n) IN
           [t |-> r.t, ret |-> r.ret]
      [] tsk.op = "resetAsync" ->
           ResetAsync(t, clk, tsk.n = 1)
      [] tsk.op = "restoreFromSnapshot" ->
           RestoreFromSnapshot(t, Snapshots(engine0)[tsk.n])
      [] tsk.op = "repairState" ->
           RepairState(t, clk)

----------------------------------------------------------------------------
(* The engine driven by one caller: specification Spec *)

Config(strategy, burstRPM, burstTPM) ==
    [rpm |-> Rpm, tpm |-> Tpm, burstRPM |-> burstRPM, burstTPM |-> burstTPM,
     historyRetentionMs |-> RetentionMs, maxHistoryRecords |-> MaxRecords,
     efficiencyWindowSize |-> WindowSize, adjustmentFailureStrategy |-> strategy,
     storage |-> FALSE]

Procs == 1..NumProcs

NoCall == [op |-> "none", n |-> 0, ret |-> "none"]
NoTask == [op |-> "none", id |-> "", n |-> 0, at |-> NoValue]

IdleBucket == NewTokenBucket(1, 1, 1, 0)

BucketIdle == bucket = IdleBucket /\ blast = NoCall

LockIdle ==
    /\ locked = FALSE
    /\ queue = << >>
    /\ pc = [p \in Procs |-> "idle"]
    /\ result = [p \in Procs |-> "none"]

\* a storage nothing was saved to: InMemoryStorage as constructed
EmptyStorage == [rpm |-> {}, tpm |-> {}, debt |-> 0, history |-> << >>]

\* no initialize() call has been made
NoStartup == [stage |-> "idle", answer |-> << >>, during |-> {}]

StoreIdle == storage = EmptyStorage /\ startup = NoStartup

CallersIdle ==
    /\ task = [p \in Procs |-> NoTask]
    /\ submitted = << >>
    /\ grants = << >>
    /\ engine0 = engine

AsyncIdle == CallersIdle /\ StoreIdle

Init ==
    /\ now = 0
    /\ \E strategy \in Strategies :
         engine = NewThrottle(Config(strategy, NoValue, NoValue), 0)
    /\ BucketIdle
    /\ LockIdle
    /\ AsyncIdle

Estimates  == (-1)..MaxEstimate
RequestIds == Ids \cup BlankIds

\* the injected clock moves forward
Tick ==
    /\ now + TickMs <= MaxTicks * TickMs
    /\ now' = now + TickMs
    /\ UNCHANGED <<engine, bucketVars, lockVars, asyncVars>>

DoCanProcess ==
    /\ \E e \in Estimates, d \in {0, TickMs} :
         /\ now + d <= MaxTicks * TickMs
         /\ engine' = CanProcessAt(engine, now, now + d, e).t
         /\ now' = now + d
    /\ UNCHANGED <<bucketVars, lockVars, asyncVars>>

DoConsume ==
    /\ \E id \in RequestIds, e \in Estimates :
         engine' = Consume(engine, now, id, e).t
    /\ UNCHANGED <<now, bucketVars, lockVars, asyncVars>>

DoAdjustConsumption ==
    /\ \E id \in Ids, a \in Estimates :
         LET r == AdjustConsumption(engine, now, id, a) IN
         /\ r.t.compensationDebt <= MaxDebt
         /\ engine' = r.t
    /\ UNCHANGED <<now, bucketVars, lockVars, asyncVars>>

\* the clock may move between the consume and the second canProcess
DoConsumeOrThrow ==
    /\ \E id \in RequestIds, e \in Estimates, d \in {0, TickMs} :
         /\ now + d <= MaxTicks * TickMs
         /\ engine' = ConsumeOrThrow(engine, now, now + d, id, e).t
         /\ now' = now + d
    /\ UNCHANGED <<bucketVars, lockVars, asyncVars>>

DoReset ==
    /\ engine' = Reset(engine, now)
    /\ UNCHANGED <<now, bucketVars, lockVars, asyncVars>>

DoGetMetrics ==
    /\ engine' = GetMetricsState(engine, now)
    /\ UNCHANGED <<now, bucketVars, lockVars, asyncVars>>

DoGetConsumptionHistory ==
    /\ engine' = GetConsumptionHistory(engine, now)
    /\ UNCHANGED <<now, bucketVars, lockVars, asyncVars>>

Next ==
    \/ Tick
    \/ DoCanProcess
    \/ DoConsume
    \/ DoConsumeOrThrow
    \/ DoAdjustConsumption
    \/ DoReset
    \/ DoGetMetrics
    \/ DoGetConsumptionHistory

Spec == Init /\ [][Next]_vars

----------------------------------------------------------------------------
(* Properties of the engine, checked under Spec *)

Amounts == 0..MaxEstimate

\* what a read of available returns now
Avail(b) == Available(b, now)

LastRecord(h) == h[Len(h)]

\* the records of g, in order, are the last Len(g) records of h
IsSuffix(g, h) ==
    /\ Len(g) <= Len(h)
    /\ g = SubSeq(h, Len(h) - Len(g) + 1, Len(h))

\* C2: consume(id, E) with a non-blank id and E >= 0 returns true exactly
\* when, after refill, the rate bucket holds at least 1 unit and the volume
\* bucket at least E + compensationDebt units.
C2_ConsumeAdmission ==
    \A id \in Ids, e \in Amounts :
        (Consume(engine, now, id, e).ret = "true")
        <=> (/\ Avail(engine.rpmBucket) >= 1 * Scale
             /\ Avail(engine.tpmBucket) >= (e + engine.compensationDebt) * Scale)

\* a debt is outstanding and denies a consume the buckets would otherwise fit
C2_Witness ==
    /\ engine.compensationDebt > 0
    /\ \E id \in Ids, e \in Amounts :
         /\ Avail(engine.rpmBucket) >= 1 * Scale
         /\ Avail(engine.tpmBucket) >= e * Scale
         /\ Consume(engine, now, id, e).ret = "false"

\* C3: a successful consume(id, E) with prior debt D takes exactly 1 from the
\* rate bucket and exactly E + D from the volume bucket, zeroes the debt, and
\* leaves as last record of the ledger the one new record, with
\* tokens = estimatedTokens = E, no actualTokens and compensationDebt = D;
\* the records before it are records the ledger already held.
C3_ConsumeEffect ==
    \A id \in Ids, e \in Amounts :
        LET r == Consume(engine, now, id, e)
            D == engine.compensationDebt
            h == r.t.consumptionHistory
        IN  r.ret = "true" =>
              /\ Avail(r.t.rpmBucket) = Avail(engine.rpmBucket) - 1 * Scale
              /\ Avail(r.t.tpmBucket) = Avail(engine.tpmBucket) - (e + D) * Scale
              /\ r.t.compensationDebt = 0
              /\ Len(h) >= 1
              /\ LastRecord(h) = [timestamp |-> now, tokens |-> e, requestId |-> id,
                                  estimatedTokens |-> e, actualTokens |-> NoValue,
                                  compensationDebt |-> D]
              /\ IsSuffix(SubSeq(h, 1, Len(h) - 1), engine.consumptionHistory)

\* a consume that paid a debt down has run: its record closes the ledger
C3_Witness ==
    /\ Len(engine.consumptionHistory) >= 1
    /\ LastRecord(engine.consumptionHistory).compensationDebt > 0
    /\ LastRecord(engine.consumptionHistory).actualTokens = NoValue
    /\ engine.compensationDebt = 0

\* C4: a consume, sync or async, that returns false changes nothing a caller
\* can read: both buckets' available, the debt and the ledger are as before.
C4_DeniedConsumeNoChange ==
    \A id \in Ids, e \in Amounts :
      \A r \in {Consume(engine, now, id, e), ConsumeAsync(engine, now, id, e)} :
        r.ret = "false" =>
          /\ Avail(r.t.rpmBucket) = Avail(engine.rpmBucket)
          /\ Avail(r.t.tpmBucket) = Avail(engine.tpmBucket)
          /\ r.t.compensationDebt = engine.compensationDebt
          /\ r.t.consumptionHistory = engine.consumptionHistory

\* a consume is denied while the ledger holds records and a debt is owed
C4_Witness ==
    /\ Len(engine.consumptionHistory) >= 1
    /\ engine.compensationDebt > 0
    /\ engine.tpmBucket.lastRefill < now
    /\ \E id \in Ids, e \in Amounts : Consume(engine, now, id, e).ret = "false"

\* C5: canProcess(E) asks the rate bucket first: short of 1 rate unit it
\* answers rpm_limit whatever the volume bucket holds; it answers tpm_limit
\* only with a rate unit at hand and less than E volume units; it allows
\* exactly when both hold enough.
C5_RateBeforeVolume ==
    \A e \in Amounts :
        LET c == CanProcess(engine, now, e)
            rateOk   == Avail(engine.rpmBucket) >= 1 * Scale
            volumeOk == Avail(engine.tpmBucket) >= e * Scale
        IN  /\ ~c.threw
            /\ ~rateOk => (~c.allowed /\ c.reason = "rpm_limit")
            /\ (~c.allowed /\ c.reason = "tpm_limit") => (rateOk /\ ~volumeOk)
            /\ c.allowed <=> (rateOk /\ volumeOk)

\* both dimensions are short at once and the answer is rpm_limit
C5_Witness ==
    \E e \in Amounts :
        /\ Avail(engine.rpmBucket) < 1 * Scale
        /\ Avail(engine.tpmBucket) < e * Scale
        /\ CanProcess(engine, now, e).reason = "rpm_limit"

\* what every adjustConsumption(id, actual) that goes through leaves: the
\* rate bucket and the debt as they were, the record at tokens = actualTokens
\* = actual
AdjustedInPlace(r, i, actual) ==
    /\ r.ret = "ok"
    /\ r.t.rpmBucket = engine.rpmBucket
    /\ Len(r.t.consumptionHistory) = Len(engine.consumptionHistory)
    /\ r.t.consumptionHistory[i].tokens = actual
    /\ r.t.consumptionHistory[i].actualTokens = actual

\* C9: adjustConsumption(id, actual) on a record holding tokens = T moves the
\* volume bucket by exactly the delta: down by actual - T when the bucket
\* holds that much, up by T - actual (capped at capacity) when actual < T,
\* not at all when actual = T; the rate bucket and the debt do not change
\* and the record ends with tokens = actualTokens = actual.
C9_AdjustByDelta ==
    \A id \in Ids, a \in Amounts :
        LET i == FindRecord(engine.consumptionHistory, id)
            r == AdjustConsumption(engine, now, id, a)
        IN  i # 0 =>
            LET T == engine.consumptionHistory[i].tokens IN
            /\ (a > T /\ Avail(engine.tpmBucket) >= (a - T) * Scale) =>
                 /\ AdjustedInPlace(r, i, a)
                 /\ r.t.compensationDebt = engine.compensationDebt
                 /\ Avail(r.t.tpmBucket) = Avail(engine.tpmBucket) - (a - T) * Scale
            /\ a < T =>
                 /\ AdjustedInPlace(r, i, a)
                 /\ r.t.compensationDebt = engine.compensationDebt
                 /\ Avail(r.t.tpmBucket) =
                      Min(engine.tpmBucket.capacity,
                          Avail(engine.tpmBucket) + (T - a) * Scale)
            /\ a = T =>
                 /\ AdjustedInPlace(r, i, a)
                 /\ r.t.compensationDebt = engine.compensationDebt
                 /\ r.t.tpmBucket = engine.tpmBucket

\* a record was reconciled before and can be adjusted again, up within the
\* bucket's balance and down with a refund the capacity caps
C9_Witness ==
    \E i \in 1..Len(engine.consumptionHistory) :
        LET rec == engine.consumptionHistory[i] IN
        /\ FindRecord(engine.consumptionHistory, rec.requestId) = i
        /\ rec.actualTokens # NoValue
        /\ rec.actualTokens # rec.estimatedTokens
        /\ \E a \in Amounts : a > rec.tokens
                              /\ Avail(engine.tpmBucket) >= (a - rec.tokens) * Scale
        /\ \E a \in Amounts : a < rec.tokens
                              /\ Avail(engine.tpmBucket) + (rec.tokens - a) * Scale
                                   > engine.tpmBucket.capacity

\* the adjustment asks for more than the volume bucket holds
Shortfall(t, id, a) ==
    LET i == FindRecord(t.consumptionHistory, id) IN
    /\ i # 0
    /\ a > t.consumptionHistory[i].tokens
    /\ Available(t.tpmBucket, now) < (a - t.consumptionHistory[i].tokens) * Scale

\* C10: under 'compensate' an adjustment that needs delta > 0 more than the
\* volume bucket holds goes through, debits nothing, adds exactly delta to
\* the debt and sets the record to actual; shortfalls one after another on
\* the same record add up to the last actual minus the tokens the record
\* held before the first.
C10_CompensateShortfall ==
    engine.adjustmentFailureStrategy = "compensate" =>
    \A id \in Ids, a \in Amounts :
        Shortfall(engine, id, a) =>
            LET i == FindRecord(engine.consumptionHistory, id)
                T == engine.consumptionHistory[i].tokens
                r == AdjustConsumption(engine, now, id, a)
            IN  /\ AdjustedInPlace(r, i, a)
                /\ Avail(r.t.tpmBucket) = Avail(engine.tpmBucket)
                /\ r.t.compensationDebt = engine.compensationDebt + (a - T)
                /\ \A a2 \in 0..(MaxEstimate + 1) :
                     Shortfall(r.t, id, a2) =>
                       LET r2 == AdjustConsumption(r.t, now, id, a2) IN
                       /\ r2.ret = "ok"
                       /\ r2.t.compensationDebt = engine.compensationDebt + (a2 - T)
                       /\ r2.t.consumptionHistory[i].tokens = a2

\* under 'compensate' a debt is owed, a record was raised above its
\* estimate, and a further shortfall on it is at hand
C10_Witness ==
    /\ engine.adjustmentFailureStrategy = "compensate"
    /\ engine.compensationDebt > 0
    /\ \E i \in 1..Len(engine.consumptionHistory) :
         LET rec == engine.consumptionHistory[i] IN
         /\ FindRecord(engine.consumptionHistory, rec.requestId) = i
         /\ rec.actualTokens # NoValue
         /\ rec.actualTokens > rec.estimatedTokens
         /\ \E a \in Amounts : Shortfall(engine, rec.requestId, a)

\* what a caller can read of the engine: both balances, the debt, the ledger
Readable(t) ==
    [rpm     |-> Available(t.rpmBucket, now),
     tpm     |-> Available(t.tpmBucket, now),
     debt    |-> t.compensationDebt,
     history |-> t.consumptionHistory]

\* C11: under 'strict' an adjustment that needs delta > 0 more than the
\* volume bucket holds fails with a RateLimitError of reason tpm_limit whose
\* availableIn is the time the bucket needs to gain the missing part of
\* delta (timeUntilTokens(delta)); the record, both balances and the debt
\* are as before the call.
C11_StrictShortfall ==
    engine.adjustmentFailureStrategy = "strict" =>
    \A id \in Ids, a \in Amounts :
        Shortfall(engine, id, a) =>
            LET i == FindRecord(engine.consumptionHistory, id)
                missing == (a - engine.consumptionHistory[i].tokens) * Scale
                             - Avail(engine.tpmBucket)
                rate == engine.tpmBucket.refillRate
                r == AdjustConsumption(engine, now, id, a)
            IN  /\ r.ret = "throw"
                /\ r.err = "tpm_limit"
                /\ r.availableIn > 0
                /\ r.availableIn * rate >= missing
                /\ (r.availableIn - 1) * rate < missing
                /\ Readable(r.t) = Readable(engine)

\* under 'strict' an adjustment of a reconciled record would fall short
C11_Witness ==
    /\ engine.adjustmentFailureStrategy = "strict"
    /\ \E i \in 1..Len(engine.consumptionHistory) :
         LET rec == engine.consumptionHistory[i] IN
         /\ FindRecord(engine.consumptionHistory, rec.requestId) = i
         /\ rec.actualTokens # NoValue
         /\ \E a \in Amounts : Shortfall(engine, rec.requestId, a)

RECURSIVE SumTokens(_)
SumTokens(h) == IF h = << >> THEN 0 ELSE Head(h).tokens + SumTokens(Tail(h))

\* C12: under 'warn' an adjustment that needs delta > 0 more than the volume
\* bucket holds goes through, creates no debt (the debt stays 0), debits
\* nothing and sets the record to tokens = actualTokens = actual.
C12_WarnShortfall ==
    engine.adjustmentFailureStrategy = "warn" =>
    /\ engine.compensationDebt = 0
    /\ \A id \in Ids, a \in Amounts :
        Shortfall(engine, id, a) =>
            LET i == FindRecord(engine.consumptionHistory, id)
                r == AdjustConsumption(engine, now, id, a)
            IN  /\ AdjustedInPlace(r, i, a)
                /\ Avail(r.t.tpmBucket) = Avail(engine.tpmBucket)
                /\ r.t.compensationDebt = 0

\* under 'warn' a shortfall was absorbed: with no refill since the engine
\* was built, the ledger's tokens add up to more than the volume bucket
\* gave, and even to more than its capacity
C12_Witness ==
    /\ engine.adjustmentFailureStrategy = "warn"
    /\ now = 0
    /\ SumTokens(engine.consumptionHistory) * Scale
         > engine.tpmBucket.capacity - Avail(engine.tpmBucket)
    /\ SumTokens(engine.consumptionHistory) * Scale > engine.tpmBucket.capacity
    /\ \E id \in Ids, a \in Amounts : Shortfall(engine, id, a)

\* C14: canProcess with a negative estimate, consume with a negative
\* estimate and consume with an empty or blank requestId each end in an
\* error and leave the buckets, the debt and the ledger as they were, in
\* every reachable state of the engine, a debt being owed or not.
C14_InvalidInputRejected ==
    /\ \A e \in Estimates : e < 0 =>
         LET c == CanProcess(engine, now, e) IN c.threw /\ c.t = engine
    /\ \A id \in Ids, e \in Estimates : e < 0 =>
         LET r == Consume(engine, now, id, e) IN r.ret = "throw" /\ r.t = engine
    /\ \A id \in BlankIds, e \in Estimates :
         LET r == Consume(engine, now, id, e) IN r.ret = "throw" /\ r.t = engine

\* C15: adjustConsumption, sync or async, with actual < 0 or with a
\* requestId no record of the ledger carries ends in an error and leaves
\* both buckets, the debt and every record of the ledger as they were.
C15_AdjustRejected ==
    \A id \in Ids, a \in Estimates :
        (a < 0 \/ FindRecord(engine.consumptionHistory, id) = 0) =>
            LET r == AdjustConsumption(engine, now, id, a)
                tsk == [op |-> "adjustConsumptionAsync", id |-> id, n |-> a,
                        at |-> NoValue]
            IN  /\ r.ret = "throw"
                /\ r.err = IF a < 0 THEN "invalid" ELSE "not_found"
                /\ r.t = engine
                /\ \/ RejectedEarly(tsk)
                   \/ Section(engine, now, tsk) = [t |-> engine, ret |-> "throw"]

\* one id has a record, holding tokens, and the other has none; the volume
\* bucket is neither full nor empty, so a refund or a debit would show
C15_Witness ==
    /\ \E id \in Ids : /\ FindRecord(engine.consumptionHistory, id) # 0
                       /\ engine.consumptionHistory[
                            FindRecord(engine.consumptionHistory, id)].tokens > 0
    /\ \E id \in Ids : FindRecord(engine.consumptionHistory, id) = 0
    /\ Avail(engine.tpmBucket) > 0
    /\ Avail(engine.tpmBucket) < engine.tpmBucket.capacity

\* C24: a RateLimitError raised by consumeOrThrow or consumeOrThrowAsync
\* carries reason rpm_limit or tpm_limit and a defined availableIn, whatever
\* the clock does between the failed consume and the building of the error.
C24_ErrorCarriesReason ==
    \A id \in Ids, e \in Amounts, d \in {0, TickMs} :
        LET r == ConsumeOrThrow(engine, now, now + d, id, e) IN
        r.ret = "RateLimitError" =>
            /\ r.reason \in {"rpm_limit", "tpm_limit"}
            /\ r.availableIn # NoValue

\* C28: whenever canProcess(E) returns allowed = false its availableIn is
\* greater than 0, for every bucket state and whatever the clock does between
\* the reads canProcess performs.
C28_DenialHasWait ==
    \A e \in Amounts, d \in {0, TickMs} :
        LET r == CanProcessAt(engine, now, now + d, e) IN
        (~r.threw /\ ~r.allowed) => r.availableIn > 0

\* C30: requestIds are unique within the ledger: in every reachable state no
\* two ledger records carry the same requestId.
C30_UniqueRequestIds ==
    \A i \in 1..Len(engine.consumptionHistory),
       j \in 1..Len(engine.consumptionHistory) :
        i # j => engine.consumptionHistory[i].requestId
                    # engine.consumptionHistory[j].requestId

\* C31: once a record has actualTokens set, no later adjustConsumption for
\* its requestId changes its tokens or actualTokens or moves units in or out
\* of the volume bucket.
C31_ReconciledOnce ==
    \A id \in Ids, a \in Amounts :
        LET i == FindRecord(engine.consumptionHistory, id)
            r == AdjustConsumption(engine, now, id, a)
        IN  (i # 0 /\ engine.consumptionHistory[i].actualTokens # NoValue) =>
               /\ r.t.consumptionHistory[i] = engine.consumptionHistory[i]
               /\ Available(r.t.tpmBucket, now) = Avail(engine.tpmBucket)

\* C34: in every state where the efficiency window covers the whole ledger
\* and at least one record is reconciled, getMetrics().efficiency equals
\* getMetrics().consumptionHistory.estimationAccuracy, for all non-negative
\* estimated and actual values, 0 included.
C34_EfficiencyIsAccuracy ==
    LET m == GetMetrics(engine, now)
        h == GetMetricsState(engine, now).consumptionHistory
    IN  (/\ Len(h) <= engine.efficiencyWindowSize
         /\ Len(RecordsWithActual(h)) > 0) =>
            FracEq(m.efficiency, m.consumptionHistory.estimationAccuracy)

\* what a bucket has given out and not got back
Used(b) == b.capacity - Avail(b)

\* C36: under 'strict', while the clock has not moved, in every state
\* reached through consume and adjustConsumption, successful or failed, the
\* volume bucket's used amount is the sum of tokens over the ledger records
\* and the rate bucket's used amount is the number of ledger records.
C36_StrictConservation ==
    (engine.adjustmentFailureStrategy = "strict" /\ now = 0) =>
        /\ Used(engine.tpmBucket) = SumTokens(engine.consumptionHistory) * Scale
        /\ Used(engine.rpmBucket) = Len(engine.consumptionHistory) * RpmCost * Scale

\* under 'strict' at the first clock value the ledger holds two records, one
\* of them reconciled to another amount than its estimate, and the volume
\* bucket has given out tokens
C36_Witness ==
    /\ engine.adjustmentFailureStrategy = "strict"
    /\ now = 0
    /\ Len(engine.consumptionHistory) = 2
    /\ \E i \in 1..2 :
          /\ engine.consumptionHistory[i].actualTokens # NoValue
          /\ engine.consumptionHistory[i].actualTokens
                # engine.consumptionHistory[i].estimatedTokens
    /\ Used(engine.tpmBucket) > 0

\* C37: under 'compensate', while the clock has not moved, in every state
\* reached through consume and adjustConsumption, the volume bucket's used
\* amount plus the outstanding compensation debt is the sum of tokens over
\* the ledger records.
C37_CompensateConservation ==
    (engine.adjustmentFailureStrategy = "compensate" /\ now = 0) =>
        Used(engine.tpmBucket) + engine.compensationDebt * Scale
            = SumTokens(engine.consumptionHistory) * Scale

\* the time after which a bucket without burst capacity is full again
FullRefillMs == SecondsPerMinute * MsPerSecond

\* C38: under 'compensate' the debt never blocks admission for good: in every
\* state, also right after one more adjustConsumption, the debt is no more
\* than the volume bucket's capacity, and once the clock has advanced far
\* enough to fill both buckets a consume with estimate 0 returns true.
C38_DebtNeverBlocks ==
    engine.adjustmentFailureStrategy = "compensate" =>
        \A id \in Ids, a \in 0..(MaxEstimate + 1) :
            LET t == AdjustConsumption(engine, now, id, a).t IN
            /\ t.compensationDebt * Scale <= t.tpmBucket.capacity
            /\ Consume(t, now + FullRefillMs, "a", 0).ret = "true"

NoneReconciledInWindow(t) ==
    LET w == LastN(t.consumptionHistory, t.efficiencyWindowSize) IN
    \A i \in 1..Len(w) : w[i].actualTokens = NoValue

\* C25 as stated: getMetrics().efficiency is the fallback 0.85 in every state
\* in which no record of the efficiency window has actualTokens set,
\* whatever the number of records in the ledger.
C25_Original ==
    NoneReconciledInWindow(GetMetricsState(engine, now)) =>
        FracEq(GetMetrics(engine, now).efficiency, Frac(85, 100))

\* C25, amended: ... whatever the number of records in the ledger, as long
\* as the ledger getMetrics is left with after its cleanup is not empty;
\* with an empty ledger the efficiency is 1.0.
C25_FallbackEfficiency ==
    LET t1 == GetMetricsState(engine, now) IN
    NoneReconciledInWindow(t1) =>
        IF t1.consumptionHistory = << >>
          THEN FracEq(GetMetrics(engine, now).efficiency, Frac(1, 1))
          ELSE FracEq(GetMetrics(engine, now).efficiency, Frac(85, 100))

\* the ledger holds a reconciled record, whose estimate was off, outside the
\* efficiency window and none inside it
C25_Witness ==
    LET h == GetMetricsState(engine, now).consumptionHistory IN
    /\ NoneReconciledInWindow(GetMetricsState(engine, now))
    /\ \E i \in 1..Len(h) : /\ h[i].actualTokens # NoValue
                            /\ h[i].actualTokens # h[i].estimatedTokens

----------------------------------------------------------------------------
(* A TokenBucket on its own: specification BucketSpec.  The clock is a wall *)
(* clock: it may jump to any explored value, forwards or backwards.         *)

BTimes  == {k * TickMs : k \in 0..BMaxTicks}
BCounts == (-1)..(BCapacity + 1)

\* the states handed to restoreState: balances below 0, inside and above the
\* capacity, with the bucket's capacity or another one
BStates ==
    {[available |-> a, capacity |-> c, lastRefill |-> l] :
        a \in {-1, 0, Scale \div 2, BCapacity * Scale, BCapacity * Scale + 1},
        c \in {BCapacity * Scale, (BCapacity + 1) * Scale},
        l \in BTimes}

EngineIdle ==
    /\ now = 0
    /\ engine = NewThrottle(Config("warn", NoValue, NoValue), 0)

BInit ==
    /\ EngineIdle
    /\ \E initialTokens \in 0..BCapacity :
         bucket = NewTokenBucket(BCapacity, BRefillRate, initialTokens, 0)
    /\ blast = NoCall
    /\ LockIdle
    /\ AsyncIdle

BClock ==
    /\ \E t \in BTimes \ {now} : now' = t
    /\ blast' = [NoCall EXCEPT !.op = "clock"]
    /\ UNCHANGED <<engine, bucket, lockVars, asyncVars>>

BAvailable ==
    /\ bucket' = Refill(bucket, now)
    /\ blast' = [NoCall EXCEPT !.op = "available"]
    /\ UNCHANGED <<engineVars, lockVars, asyncVars>>

BConsume ==
    /\ \E n \in BCounts :
         LET r == BucketConsume(bucket, now, n) IN
         /\ bucket' = r.b
         /\ blast' = [op |-> "consume", n |-> n,
                      ret |-> IF r.threw THEN "throw"
                              ELSE IF r.ok THEN "true" ELSE "false"]
    /\ UNCHANGED <<engineVars, lockVars, asyncVars>>

BRefund ==
    /\ \E n \in BCounts :
         LET r == BucketRefund(bucket, n) IN
         /\ bucket' = r.b
         /\ blast' = [op |-> "refund", n |-> n,
                      ret |-> IF r.threw THEN "throw" ELSE "ok"]
    /\ UNCHANGED <<engineVars, lockVars, asyncVars>>

BReset ==
    /\ bucket' = BucketReset(bucket, now)
    /\ blast' = [NoCall EXCEPT !.op = "reset"]
    /\ UNCHANGED <<engineVars, lockVars, asyncVars>>

BRestoreState ==
    /\ \E st \in BStates :
         LET r == RestoreState(bucket, st) IN
         /\ bucket' = r.b
         /\ blast' = [op |-> "restoreState", n |-> st.available,
                      ret |-> IF r.threw THEN "throw" ELSE "ok"]
    /\ UNCHANGED <<engineVars, lockVars, asyncVars>>

BNext ==
    \/ BClock
    \/ BAvailable
    \/ BConsume
    \/ BRefund
    \/ BReset
    \/ BRestoreState

BucketSpec == BInit /\ [][BNext]_vars

\* C1: 0 <= available <= capacity in every state a TokenBucket reaches through
\* consume, refund, reset, restoreState (accepted or rejected) and clock
\* changes, for the stored balance and for the balance a read returns.
C1_AvailableInRange ==
    /\ 0 <= bucket.available
    /\ bucket.available <= bucket.capacity
    /\ 0 <= Available(bucket, now)
    /\ Available(bucket, now) <= bucket.capacity

\* a refund larger than the room left has just filled the bucket to capacity
C1_Witness ==
    /\ blast.op = "refund"
    /\ blast.ret = "ok"
    /\ blast.n = BCapacity + 1
    /\ bucket.available = bucket.capacity

\* C16: consume(n) with n >= 0 returns true and takes exactly n when the
\* refilled balance is at least n, and otherwise returns false and leaves
\* the refilled balance; consume(n) with n < 0 throws and changes nothing.
C16_ConsumeAllOrNothing ==
    \A n \in BCounts :
        LET before == Available(bucket, now)
            r == BucketConsume(bucket, now, n)
        IN  /\ n < 0 => r.threw /\ r.b = bucket
            /\ (n >= 0 /\ before >= n * Scale) =>
                 /\ ~r.threw /\ r.ok
                 /\ r.b.available = before - n * Scale
                 /\ Available(r.b, now) = before - n * Scale
            /\ (n >= 0 /\ before < n * Scale) =>
                 /\ ~r.threw /\ ~r.ok
                 /\ r.b.available = before
                 /\ Available(r.b, now) = before

\* a consume was refused by a bucket that held something, after a refill
C16_Witness ==
    /\ blast.op = "consume"
    /\ blast.ret = "false"
    /\ bucket.available > 0
    /\ bucket.lastRefill > 0

\* C17: a read of available never lowers it and reading twice changes
\* nothing: whatever the clock returns, forwards, the same or backwards, a
\* read leaves min(capacity, available + elapsed seconds * refillRate), the
\* time elapsed since the last refill counting as none when the clock has
\* not moved past it; a second read at the same clock value returns the
\* same, and a later read at any clock value returns no less.
C17_RefillMonotone ==
    \A t1 \in BTimes, t2 \in BTimes :
        LET elapsed == Max(0, t1 - bucket.lastRefill)
            b1 == Refill(bucket, t1)
            b2 == Refill(b1, t2)
        IN  /\ b1.available = Min(bucket.capacity,
                                  bucket.available + elapsed * bucket.refillRate)
            /\ b1.available >= bucket.available
            /\ Refill(b1, t1) = b1
            /\ b2.available >= b1.available
            /\ Available(b1, t2) >= Available(bucket, t1)

\* the bucket was read, is neither empty nor full, and the clock now
\* returns less than at the last refill
C17_Witness ==
    /\ blast.op = "clock"
    /\ now < bucket.lastRefill
    /\ bucket.available > 0
    /\ bucket.available < bucket.capacity

\* buckets of the capacity of b, in any state of their own
SameCapacity(b) ==
    {[b EXCEPT !.available = a, !.lastRefill = l] :
        a \in {0, Scale \div 2, b.capacity}, l \in BTimes}

\* C29: restoreState(getState()) on a bucket of the same capacity succeeds
\* and gives it the available and lastRefill of the bucket the state came
\* from, so that its own getState() returns the same state; restoreState of a
\* state whose available is outside [0, capacity] or whose capacity differs
\* throws and leaves the bucket unchanged.
C29_StateRoundTrip ==
    LET st == GetState(bucket, now) IN
    /\ st.available = Available(bucket, now)
    /\ \A target \in SameCapacity(bucket) :
          LET r == RestoreState(target, st) IN
          /\ ~r.threw
          /\ r.b.available = st.available
          /\ r.b.lastRefill = st.lastRefill
          /\ GetState(r.b, now) = st
    /\ \A bad \in BStates :
          (\/ bad.available < 0
           \/ bad.available > bucket.capacity
           \/ bad.capacity # bucket.capacity) =>
              /\ RestoreState(bucket, bad).threw
              /\ RestoreState(bucket, bad).b = bucket

\* a state with a balance of half a token, stamped later than the clock now
\* returns, was restored into the bucket, and the state the bucket gives
\* back has that balance and that stamp
C29_Witness ==
    /\ blast.op = "restoreState"
    /\ blast.ret = "ok"
    /\ bucket.lastRefill > now
    /\ GetState(bucket, now).available = Scale \div 2
    /\ GetState(bucket, now).lastRefill = bucket.lastRefill

----------------------------------------------------------------------------
(* The gate on its own: specification LockSpec.  Each caller runs           *)
(* withLock(fn) again and again: acquire, then fn, then release in the      *)
(* finally block.  A caller is "waiting" while its promise is queued,       *)
(* "granted" once it is resolved, "inside" while fn runs, "releasing" when  *)
(* fn has returned or thrown and the finally block is due, "done" after.    *)

Lock == [locked |-> locked, queue |-> queue]

Holding == {p \in Procs : pc[p] \in {"granted", "inside", "releasing"}}

LInit ==
    /\ EngineIdle
    /\ BucketIdle
    /\ LockIdle
    /\ AsyncIdle

\* withLock: await this.acquire()
LAcquire ==
    /\ \E p \in Procs :
         /\ pc[p] = "idle"
         /\ LET a == Acquire(Lock, p) IN
            /\ locked' = a.locked
            /\ queue' = a.queue
            /\ pc' = [pc EXCEPT ![p] = IF a.granted THEN "granted" ELSE "waiting"]
    /\ UNCHANGED <<result, engineVars, bucketVars, asyncVars>>

\* the awaited acquire has resolved: fn starts
LEnter ==
    /\ \E p \in Procs :
         /\ pc[p] = "granted"
         /\ pc' = [pc EXCEPT ![p] = "inside"]
    /\ UNCHANGED <<locked, queue, result, engineVars, bucketVars, asyncVars>>

\* mutant: release() follows the call of fn without a finally block, so a
\* throw of fn leaves withLock at once
LFinish_NoFinally ==
    /\ \E p \in Procs, outcome \in {"ok", "error"} :
         /\ pc[p] = "inside"
         /\ pc' = [pc EXCEPT ![p] = IF outcome = "ok" THEN "releasing" ELSE "done"]
         /\ result' = [result EXCEPT ![p] = outcome]
    /\ UNCHANGED <<locked, queue, engineVars, bucketVars, asyncVars>>

\* fn returns or throws
LFinish ==
    /\ \E p \in Procs, outcome \in {"ok", "error"} :
         /\ pc[p] = "inside"
         /\ pc' = [pc EXCEPT ![p] = "releasing"]
         /\ result' = [result EXCEPT ![p] = outcome]
    /\ UNCHANGED <<locked, queue, engineVars, bucketVars, asyncVars>>

\* finally { this.release() }
LRelease ==
    /\ \E p \in Procs :
         /\ pc[p] = "releasing"
         /\ LET r == Release(Lock) IN
            /\ locked' = r.locked
            /\ queue' = r.queue
            /\ pc' = [q \in Procs |->
                        IF q = p THEN "done"
                        ELSE IF q = r.next THEN "granted" ELSE pc[q]]
            /\ result' = [result EXCEPT ![p] = IF r.threw THEN "lock_error" ELSE @]
    /\ UNCHANGED <<engineVars, bucketVars, asyncVars>>

\* the caller comes back with another withLock
LAgain ==
    /\ \E p \in Procs :
         /\ pc[p] = "done"
         /\ pc' = [pc EXCEPT ![p] = "idle"]
         /\ result' = [result EXCEPT ![p] = "none"]
    /\ UNCHANGED <<locked, queue, engineVars, bucketVars, asyncVars>>

LNext ==
    \/ LAcquire
    \/ LEnter
    \/ LFinish
    \/ LRelease
    \/ LAgain

LockSpec == LInit /\ [][LNext]_vars

\* C7: without clear(), at most one caller is between its grant and its
\* release at any time; the lock is marked held exactly then, and nobody
\* waits on a free lock.
C7_MutualExclusion ==
    /\ Cardinality(Holding) <= 1
    /\ locked <=> (Holding # {})
    /\ \A p \in Procs : pc[p] = "waiting" => (locked /\ \E i \in 1..Len(queue) : queue[i] = p)

\* one caller is inside its section while all the others wait in the queue
C7_Witness ==
    /\ \E p \in Procs : pc[p] = "inside"
    /\ Len(queue) = NumProcs - 1

\* C20: withLock releases the lock on every way out of fn.  A caller
\* leaves fn, returning or throwing, only into the finally block; when fn
\* threw, the step that ends withLock keeps that error as the outcome,
\* gives the lock up, and hands it to the head of the queue if somebody
\* waits, else marks it free.
C20_ReleaseOnEveryPath ==
    [][\A p \in Procs :
         /\ (pc[p] = "inside" /\ pc'[p] # "inside") => pc'[p] = "releasing"
         /\ (pc[p] = "releasing" /\ result[p] = "error" /\ pc'[p] # "releasing") =>
              /\ pc'[p] = "done"
              /\ result'[p] = "error"
              /\ IF queue = << >>
                   THEN ~locked' /\ \A q \in Procs : pc'[q] \notin {"granted", "inside"}
                   ELSE /\ locked'
                        /\ pc'[Head(queue)] = "granted"
                        /\ queue' = Tail(queue)]_vars

\* a caller whose fn threw is through, and the caller that waited behind it
\* holds the lock
C20_Witness ==
    \E p \in Procs, q \in Procs :
        /\ pc[p] = "done"
        /\ result[p] = "error"
        /\ pc[q] = "granted"
        /\ \A o \in Procs \ {p, q} : pc[o] = "waiting"

----------------------------------------------------------------------------
(* The gate with clear(): specification ClearSpec.  As LockSpec, and at any *)
(* moment somebody may call clear().  A waiter whose promise was rejected   *)
(* is "rejected": its withLock ends there, before the try block.            *)

\* clear()
LClear ==
    /\ LET c == Clear(Lock)
           out == {c.rejected[i] : i \in 1..Len(c.rejected)}
       IN  /\ locked' = c.locked
           /\ queue' = c.queue
           /\ pc' = [q \in Procs |-> IF q \in out THEN "rejected" ELSE pc[q]]
           /\ result' = [q \in Procs |-> IF q \in out THEN "cleared" ELSE result[q]]
    /\ UNCHANGED <<engineVars, bucketVars, asyncVars>>

ClearNext ==
    \/ LAcquire
    \/ LEnter
    \/ LFinish
    \/ LRelease
    \/ LAgain
    \/ LClear

ClearSpec == LInit /\ [][ClearNext]_vars

\* C21: clear() rejects every waiter that is queued and not yet granted,
\* with the cancellation error, and leaves the queue empty and the lock
\* marked free; a waiter it rejected is never granted the lock, and nobody
\* is left waiting outside the queue.
C21_ClearRejectsWaiters ==
    [][/\ \A p \in Procs :
            (pc[p] = "waiting" /\ pc'[p] = "rejected") =>
                /\ queue' = << >>
                /\ ~locked'
                /\ \A q \in Procs : pc[q] = "waiting" =>
                     pc'[q] = "rejected" /\ result'[q] = "cleared"
       /\ \A p \in Procs : pc[p] = "rejected" => pc'[p] = "rejected"
       /\ \A p \in Procs : pc'[p] = "waiting" =>
            \E i \in 1..Len(queue') : queue'[i] = p
       /\ LET c == Clear(Lock) IN
            c.queue = << >> /\ ~c.locked /\ c.rejected = queue]_vars

\* clear() was called with all but one caller waiting: they are rejected,
\* the queue is empty, the lock is marked free, and the caller that was
\* inside has since left
C21_Witness ==
    /\ Cardinality({p \in Procs : pc[p] = "rejected" /\ result[p] = "cleared"})
         = NumProcs - 1
    /\ queue = << >>
    /\ ~locked
    /\ \E p \in Procs : pc[p] = "done"

----------------------------------------------------------------------------
(* The engine behind its gate: specification AsyncSpec.  Every caller       *)
(* makes one call of a protected operation.  The call runs its checks,      *)
(* then lock.withLock(section): acquire at once, the section when the       *)
(* grant has arrived, release in the finally block.  Calls, sections and    *)
(* releases of different callers interleave freely, and the clock may move  *)
(* between them.                                                            *)

\* the request id a caller may use as its own
IdOf(p) == ToString(p)

AsyncIds == {IdOf(p) : p \in Procs}

\* the calls a caller chooses from
Tasks(p) ==
    [op : {"consumeAsync"}, id : {IdOf(p), IdOf(1)}, n : 1..MaxEstimate, at : {NoValue}]
      \cup [op : {"consumeAsync"}, id : {""}, n : {1}, at : {NoValue}]
      \cup [op : {"adjustConsumptionAsync"}, id : {IdOf(1)},
            n : {-1, 0, MaxEstimate + 1}, at : {NoValue}]
      \cup [op : {"resetAsync", "repairState"}, id : {""}, n : {0}, at : {NoValue}]
      \cup [op : {"restoreFromSnapshot"}, id : {""}, n : 1..3, at : {NoValue}]

AInit ==
    /\ now = 0
    /\ \E strategy \in Strategies :
         \E burst \in {<<NoValue, NoValue>>, <<NumProcs, NumProcs * MaxEstimate>>} :
           engine = NewThrottle(Config(strategy, burst[1], burst[2]), 0)
    /\ BucketIdle
    /\ LockIdle
    /\ AsyncIdle

\* a caller makes its call: a call its own checks reject is over at once,
\* any other asks the gate
ASubmit ==
    /\ \E p \in Procs : \E tsk \in Tasks(p) :
         /\ pc[p] = "idle"
         /\ task' = [task EXCEPT ![p] = tsk]
         /\ IF RejectedEarly(tsk)
              THEN /\ pc' = [pc EXCEPT ![p] = "done"]
                   /\ result' = [result EXCEPT ![p] = "throw"]
                   /\ UNCHANGED <<locked, queue, submitted, grants>>
              ELSE LET a == Acquire(Lock, p) IN
                   /\ locked' = a.locked
                   /\ queue' = a.queue
                   /\ pc' = [pc EXCEPT ![p] = IF a.granted THEN "granted" ELSE "waiting"]
                   /\ submitted' = Append(submitted, p)
                   /\ grants' = IF a.granted THEN Append(grants, p) ELSE grants
                   /\ UNCHANGED result
    /\ UNCHANGED <<engineVars, bucketVars, engine0, storeVars>>

\* the grant has arrived: the section runs, up to its return or throw
ARun ==
    /\ \E p \in Procs :
         /\ pc[p] = "granted"
         /\ LET r == Section(engine, now, task[p]) IN
            /\ engine' = r.t
            /\ result' = [result EXCEPT ![p] = r.ret]
         /\ task' = [task EXCEPT ![p].at = now]
         /\ pc' = [pc EXCEPT ![p] = "releasing"]
    /\ UNCHANGED <<now, locked, queue, submitted, grants, engine0, storeVars, bucketVars>>

\* finally { this.release() }: the head of the queue, if any, is granted
ARelease ==
    /\ \E p \in Procs :
         /\ pc[p] = "releasing"
         /\ LET r == Release(Lock) IN
            /\ locked' = r.locked
            /\ queue' = r.queue
            /\ pc' = [q \in Procs |->
                        IF q = p THEN "done"
                        ELSE IF q = r.next THEN "granted" ELSE pc[q]]
            /\ grants' = IF r.next \in Procs THEN Append(grants, r.next) ELSE grants
            /\ result' = [result EXCEPT ![p] = IF r.threw THEN "lock_error" ELSE @]
    /\ UNCHANGED <<engineVars, bucketVars, task, submitted, engine0, storeVars>>

ANext ==
    \/ ASubmit
    \/ ARun
    \/ ARelease
    \/ Tick

AsyncSpec == AInit /\ [][ANext]_vars

(* Properties of the engine behind its gate, checked under AsyncSpec *)

AllDone == \A p \in Procs : pc[p] = "done"

\* the callers whose section has run, in the order they asked for the lock
RanInOrder == SelectSeq(submitted, LAMBDA p : pc[p] \in {"releasing", "done"})

\* the calls of order made one after another on t, each section at the
\* clock value it read: the engine left and what each call settled with
RECURSIVE Replay(_, _, _)
Replay(t, res, order) ==
    IF order = << >> THEN [t |-> t, res |-> res]
    ELSE LET p == Head(order)
             r == Section(t, task[p].at, task[p])
         IN  Replay(r.t, [res EXCEPT ![p] = r.ret], Tail(order))

Serial(order) == Replay(engine0, [p \in Procs |-> "none"], order)

Reverse(s) == [i \in 1..Len(s) |-> s[Len(s) + 1 - i]]

\* C8: the lock is granted in the order it was asked for, and so the engine
\* after any number of sections of concurrently made protected calls
\* (consumeAsync, adjustConsumptionAsync, resetAsync, restoreFromSnapshot,
\* repairState) is the engine that making the calls one after another in that
\* order leaves, with every call settled as it settles there.
C8_FifoSerial ==
    /\ grants = SubSeq(submitted, 1, Len(grants))
    /\ RanInOrder = SubSeq(submitted, 1, Len(RanInOrder))
    /\ LET s == Serial(RanInOrder) IN
       /\ engine = s.t
       /\ \A i \in 1..Len(RanInOrder) :
            result[RanInOrder[i]] = s.res[RanInOrder[i]]

\* every caller went through the gate, not in the order of their numbers,
\* and the calls made in the opposite order would have left another engine
C8_Witness ==
    /\ AllDone
    /\ Len(submitted) = NumProcs
    /\ submitted[1] # 1
    /\ Serial(Reverse(submitted)).t # engine

\* the case of C6: every caller made consumeAsync(own id, unit) on the
\* engine as built, whose buckets hold at least that many units, the clock
\* stood still and every call has settled
ConcurrentConsumes(unit) ==
    /\ AllDone
    /\ now = 0
    /\ \A p \in Procs : task[p] = [op |-> "consumeAsync", id |-> IdOf(p), n |-> unit, at |-> 0]
    /\ engine0.rpmBucket.capacity >= NumProcs * RpmCost * Scale
    /\ engine0.tpmBucket.capacity >= NumProcs * unit * Scale

ConcurrentConsumesDebited(unit) ==
    /\ \A p \in Procs : result[p] = "true"
    /\ Avail(engine.rpmBucket) = engine.rpmBucket.capacity - NumProcs * RpmCost * Scale
    /\ Avail(engine.tpmBucket) = engine.tpmBucket.capacity - NumProcs * unit * Scale

\* C6 as stated: N concurrent consumeAsync calls (distinct ids, unit each, no
\* debt, clock fixed) on an engine with rate capacity >= N and volume
\* capacity >= N * unit all return true, leave rate available = capacity - N
\* and volume available = capacity - N * unit, and N records in the ledger.
C6_Original ==
    \A unit \in 1..MaxEstimate :
      ConcurrentConsumes(unit) =>
        /\ ConcurrentConsumesDebited(unit)
        /\ Len(engine.consumptionHistory) = NumProcs

\* C6, amended: ... and in the ledger, empty before, the newest
\* min(N, maxHistoryRecords) of the N records, in the order of the calls.
C6_ConcurrentConsumes ==
    \A unit \in 1..MaxEstimate :
      ConcurrentConsumes(unit) =>
        /\ ConcurrentConsumesDebited(unit)
        /\ LET h == engine.consumptionHistory
               kept == Min(NumProcs, engine.maxHistoryRecords)
           IN  /\ Len(h) = kept
               /\ \A i \in 1..kept :
                    h[i] = NewRecord(0, IdOf(submitted[NumProcs - kept + i]), unit, 0)

\* all the callers were queued behind one another and all were admitted
C6_Witness ==
    /\ \E unit \in 1..MaxEstimate : ConcurrentConsumes(unit)
    /\ submitted[1] # 1
    /\ engine.consumptionHistory # << >>

\* C13: the compensation debt is never negative, whatever public operations
\* were called, restoreFromSnapshot with any snapshot included.
C13_DebtNeverNegative == engine.compensationDebt >= 0

----------------------------------------------------------------------------
(* The ledger and its bounds: specification LedgerSpec.  An engine built    *)
(* with a storage and with room in both buckets for more requests than the  *)
(* ledger may hold; one caller consumes, reads, changes the two bounds of   *)
(* the ledger, initializes from the storage, restores and repairs.          *)

\* records a storage may hold, more of them than the ledger may keep
StoredHistory ==
    [i \in 1..(MaxRecords + 1) |-> NewRecord(0, IF i % 2 = 1 THEN "a" ELSE "b", i, 0)]

\* what the storage may hold when initialize is called
StoredStates(t) ==
    [rpm     : {{}, {[available |-> 0, capacity |-> t.rpmBucket.capacity,
                      lastRefill |-> 0]}},
     tpm     : {{}},
     debt    : {-1, 1},
     history : {<< >>, StoredHistory},
     fails   : {"none", "debt", "history"}]

LedgerInit ==
    /\ now = 0
    /\ engine = NewThrottle([Config("compensate", MaxRecords + 2, MaxRecords + 2)
                               EXCEPT !.storage = TRUE], 0)
    /\ BucketIdle
    /\ LockIdle
    /\ AsyncIdle

DoSetHistoryRetention ==
    /\ \E ms \in {0, TickMs, RetentionMs} :
         engine' = SetHistoryRetention(engine, ms).t
    /\ UNCHANGED <<now, bucketVars, lockVars, asyncVars>>

DoSetMaxHistoryRecords ==
    /\ \E count \in 0..(MaxRecords + 1) :
         engine' = SetMaxHistoryRecords(engine, now, count).t
    /\ UNCHANGED <<now, bucketVars, lockVars, asyncVars>>

DoInitialize ==
    /\ \E stored \in StoredStates(engine) :
         engine' = Initialize(engine, now, stored)
    /\ UNCHANGED <<now, bucketVars, lockVars, asyncVars>>

DoRestoreFromSnapshot ==
    /\ \E n \in 1..3 :
         engine' = RestoreFromSnapshot(engine, Snapshots(engine0)[n]).t
    /\ UNCHANGED <<now, bucketVars, lockVars, asyncVars>>

DoRepairState ==
    /\ engine' = RepairState(engine, now).t
    /\ UNCHANGED <<now, bucketVars, lockVars, asyncVars>>

DoResetAsync ==
    /\ \E clearFails \in BOOLEAN :
         engine' = ResetAsync(engine, now, clearFails).t
    /\ UNCHANGED <<now, bucketVars, lockVars, asyncVars>>

LedgerNext ==
    \/ Tick
    \/ DoResetAsync
    \/ DoConsume
    \/ DoGetMetrics
    \/ DoGetConsumptionHistory
    \/ DoSetHistoryRetention
    \/ DoSetMaxHistoryRecords
    \/ DoInitialize
    \/ DoRestoreFromSnapshot
    \/ DoRepairState

LedgerSpec == LedgerInit /\ [][LedgerNext]_vars

(* Properties of the ledger, checked under LedgerSpec *)

\* the records of h newer than the retention window of t at the clock value now
Fresh(t, h) ==
    SelectSeq(h, LAMBDA item : item.timestamp > now - t.historyRetentionMs)

\* g is what a size bound of max leaves of h: all of it when it fits, its
\* last max records in their order when it does not
NewestOf(g, h, max) ==
    /\ Len(g) = Min(Len(h), max)
    /\ IsSuffix(g, h)

\* C18: whenever a public operation has returned, the ledger holds at most
\* maxHistoryRecords records; and where records are evicted for size (by a
\* consume, by setMaxHistoryRecords, by initialize loading a stored ledger)
\* the ledger is left with exactly the maxHistoryRecords records inserted
\* last, in their original order.
C18_LedgerBound ==
    /\ Len(engine.consumptionHistory) <= engine.maxHistoryRecords
    /\ \A id \in Ids, e \in Amounts :
         LET r == Consume(engine, now, id, e) IN
         r.ret = "true" =>
           NewestOf(r.t.consumptionHistory,
                    Fresh(engine, Append(engine.consumptionHistory,
                                         NewRecord(now, id, e, engine.compensationDebt))),
                    engine.maxHistoryRecords)
    /\ \A count \in 1..(MaxRecords + 1) :
         NewestOf(SetMaxHistoryRecords(engine, now, count).t.consumptionHistory,
                  Fresh(engine, engine.consumptionHistory), count)
    /\ \A stored \in StoredStates(engine) :
         (~engine.initialized /\ stored.fails = "none" /\ stored.history # << >>) =>
           NewestOf(Initialize(engine, now, stored).consumptionHistory,
                    Fresh(engine, stored.history), engine.maxHistoryRecords)

\* the ledger is full of records inside the retention window, a further
\* consume is admitted, and a setMaxHistoryRecords would evict as well
C18_Witness ==
    /\ Len(engine.consumptionHistory) = engine.maxHistoryRecords
    /\ engine.maxHistoryRecords > 1
    /\ Fresh(engine, engine.consumptionHistory) = engine.consumptionHistory
    /\ engine.consumptionHistory[1] # engine.consumptionHistory[2]
    /\ \E id \in Ids, e \in Amounts : Consume(engine, now, id, e).ret = "true"

\* the ledger t holds after a call is h cut to the retention window at the
\* clock value now and then to the size bound
WithinRetention(t, h) ==
    /\ \A i \in 1..Len(t.consumptionHistory) :
         t.consumptionHistory[i].timestamp > now - t.historyRetentionMs
    /\ IsSuffix(t.consumptionHistory, Fresh(t, h))
    /\ Len(Fresh(t, h)) <= t.maxHistoryRecords =>
         t.consumptionHistory = Fresh(t, h)

\* C19: right after getMetrics(), getConsumptionHistory() or a successful
\* consume() at clock value now, the ledger holds no record with
\* timestamp <= now - historyRetentionMs, and every record newer than that
\* which it held before (or which the consume added) and which was not
\* evicted for size is still there, in its place.
C19_Retention ==
    /\ WithinRetention(GetMetricsState(engine, now), engine.consumptionHistory)
    /\ WithinRetention(GetConsumptionHistory(engine, now), engine.consumptionHistory)
    /\ \A id \in Ids, e \in Amounts :
         LET r == Consume(engine, now, id, e) IN
         r.ret = "true" =>
           WithinRetention(r.t, Append(engine.consumptionHistory,
                                       NewRecord(now, id, e, engine.compensationDebt)))

\* the ledger holds a record exactly as old as the retention window and a
\* newer one
C19_Witness ==
    /\ \E i \in 1..Len(engine.consumptionHistory) :
         engine.consumptionHistory[i].timestamp = now - engine.historyRetentionMs
    /\ \E i \in 1..Len(engine.consumptionHistory) :
         engine.consumptionHistory[i].timestamp > now - engine.historyRetentionMs
    /\ \E id \in Ids, e \in Amounts : Consume(engine, now, id, e).ret = "true"

\* C22: a restoreFromSnapshot that fails (a bucket state with available
\* outside [0, capacity] or with another capacity than the live bucket's)
\* leaves both buckets, the debt and the ledger exactly as they were.
C22_RestoreAllOrNothing ==
    \A n \in 1..3 :
        LET r == RestoreFromSnapshot(engine, Snapshots(engine0)[n]) IN
        r.ret = "throw" => r.t = engine

\* C23: a storage whose operations reject never shows through the engine:
\* the call does not reject, and its result and the engine it leaves are
\* those of the same call with a storage that succeeds.
C23_StorageFailureHidden ==
    /\ \A clearFails \in BOOLEAN :
         ResetAsync(engine, now, clearFails) = ResetAsync(engine, now, FALSE)
    /\ \A stored \in StoredStates(engine) :
         stored.history = << >> =>
           Initialize(engine, now, [stored EXCEPT !.fails = "history"])
             = Initialize(engine, now, [stored EXCEPT !.fails = "none"])

\* records an engine may be left holding at clock clk: a sound one, one older
\* than twice the retention window, one from the future, one with a negative
\* token count
DamagedRecords(t, clk) ==
    { [NewRecord(clk, "a", 1, 0) EXCEPT !.timestamp = ts, !.tokens = tk] :
        <<ts, tk>> \in { <<clk, 1>>,
                         <<clk - t.historyRetentionMs * 2 - 1, 1>>,
                         <<clk + 1000 + 1, 1>>,
                         <<clk, -1>> } }

\* ledgers of up to MaxRecords such records
DamagedLedgers(t, clk) ==
    UNION { [1..n -> DamagedRecords(t, clk)] : n \in 0..MaxRecords }

\* the engine with its debt and ledger overwritten
Damaged(t, debt, h) ==
    [t EXCEPT !.compensationDebt = debt, !.consumptionHistory = h]

\* C27: at a fixed clock, for any debt and any ledger contents, repairState()
\* leaves an engine for which validateState() is true, returns true exactly
\* when it changed the debt or removed a record, and a second repairState()
\* right after returns false and changes nothing.
C27_RepairEstablishesValidity ==
    \A debt \in (-1)..1, h \in DamagedLedgers(engine, now) \cup
                               {engine.consumptionHistory} :
        LET t0 == Damaged(engine, debt, h)
            r  == RepairState(t0, now)
        IN  /\ ValidateState(r.t, now)
            /\ (r.ret = "true") <=>
                  \/ r.t.compensationDebt # t0.compensationDebt
                  \/ Len(r.t.consumptionHistory) < Len(t0.consumptionHistory)
            /\ RepairState(r.t, now) = [t |-> r.t, ret |-> "false"]

\* witness: a reached engine that owes a negative debt and holds records;
\* validateState() is false for it, and repairState() returns true and makes
\* it true
C27_Witness ==
    /\ engine.compensationDebt < 0
    /\ Len(engine.consumptionHistory) > 0
    /\ ~ValidateState(engine, now)
    /\ RepairState(engine, now).ret = "true"
    /\ ValidateState(RepairState(engine, now).t, now)

----------------------------------------------------------------------------
(* The consistency probe: specification ProbeSpec.  An engine whose         *)
(* retention window is shorter than the clock advances explored, driven     *)
(* with valid arguments only: consume, adjustConsumption, getMetrics,       *)
(* reset, and the clock moving forward.                                     *)

ProbeInit ==
    /\ now = 0
    /\ \E strategy \in Strategies :
         engine = NewThrottle([Config(strategy, NoValue, NoValue)
                                 EXCEPT !.historyRetentionMs = TickMs \div 4], 0)
    /\ BucketIdle
    /\ LockIdle
    /\ AsyncIdle

DoValidConsume ==
    /\ \E id \in Ids, e \in Amounts : engine' = Consume(engine, now, id, e).t
    /\ UNCHANGED <<now, bucketVars, lockVars, asyncVars>>

DoValidAdjustConsumption ==
    /\ \E id \in Ids, a \in Amounts :
         LET r == AdjustConsumption(engine, now, id, a) IN
         /\ r.t.compensationDebt <= MaxDebt
         /\ engine' = r.t
    /\ UNCHANGED <<now, bucketVars, lockVars, asyncVars>>

ProbeNext ==
    \/ Tick
    \/ DoValidConsume
    \/ DoValidAdjustConsumption
    \/ DoGetMetrics
    \/ DoReset

ProbeSpec == ProbeInit /\ [][ProbeNext]_vars

\* C26: validateState() returns true in every state reached from
\* construction through consume, adjustConsumption, getMetrics, reset and
\* forward moves of the clock, under every adjustment-failure strategy.
C26_AlwaysValid == ValidateState(engine, now)

\* C32: adjustConsumption applies retention before it acts: a record whose
\* timestamp is at or before now - historyRetentionMs is not reconciled, the
\* call fails as not-found and leaves the volume bucket as it was, and after
\* any adjustConsumption the ledger holds no expired record.
C32_AdjustAppliesRetention ==
    \A id \in Ids, a \in Amounts :
        LET i == FindRecord(engine.consumptionHistory, id)
            r == AdjustConsumption(engine, now, id, a)
        IN  /\ (/\ i # 0
                /\ engine.consumptionHistory[i].timestamp
                      <= now - engine.historyRetentionMs) =>
                  /\ r.ret = "throw"
                  /\ r.err = "not_found"
                  /\ Available(r.t.tpmBucket, now) = Avail(engine.tpmBucket)
            /\ \A j \in 1..Len(r.t.consumptionHistory) :
                  r.t.consumptionHistory[j].timestamp > now - r.t.historyRetentionMs

\* C33: clear() does not disturb the protected section running when it is
\* called: the withLock call of that section settles with the result or the
\* error of the protected function, never with a lock error raised by the
\* release that follows the section.  Checked under ClearSpec.
C33_ClearSparesRunningSection ==
    \A p \in Procs : pc[p] = "done" => result[p] \in {"ok", "error"}

----------------------------------------------------------------------------
(* The unlocked variant under concurrent callers: specification             *)
(* UnlockedSpec.  Each caller issues one consume(id, E) without the gate.   *)
(* consume is a synchronous function with no await in it, so between the    *)
(* moment a caller is about to call ("called") and the moment its call has  *)
(* returned ("done") the whole body runs as one step; callers interleave    *)
(* only between calls.  The clock is held.  submitted lists the callers in  *)
(* the order they got ready, grants in the order their calls ran.           *)

UnlockedInit ==
    /\ now = 0
    /\ \E strategy \in Strategies :
         engine = NewThrottle(Config(strategy, NoValue, NoValue), 0)
    /\ BucketIdle
    /\ LockIdle
    /\ AsyncIdle

\* a caller gets ready to call consume(IdOf(p), e)
UCall ==
    /\ \E p \in Procs, e \in 0..MaxEstimate :
         /\ pc[p] = "idle"
         /\ task' = [task EXCEPT ![p] = [op |-> "consume", id |-> IdOf(p),
                                          n |-> e, at |-> NoValue]]
         /\ pc' = [pc EXCEPT ![p] = "called"]
         /\ submitted' = Append(submitted, p)
    /\ UNCHANGED <<now, engine, engine0, storeVars, locked, queue, result, grants, bucketVars>>

\* mutant: the admission check reads the engine as it was before any debit,
\* the debits and the record go to the engine as it is
UConsume_StaleCheck ==
    /\ \E p \in Procs :
         /\ pc[p] = "called"
         /\ LET total == TotalTokensNeeded(task[p].n, engine.compensationDebt)
                check == CanProcess(engine0, now, total)
            IN  IF check.allowed
                  THEN /\ engine' =
                            [engine EXCEPT
                               !.rpmBucket = BucketConsume(@, now, RpmCost).b,
                               !.tpmBucket = BucketConsume(@, now, total).b,
                               !.compensationDebt = 0,
                               !.consumptionHistory =
                                   Append(@, NewRecord(now, task[p].id, task[p].n,
                                                       engine.compensationDebt))]
                       /\ result' = [result EXCEPT ![p] = "true"]
                  ELSE /\ engine' = engine
                       /\ result' = [result EXCEPT ![p] = "false"]
         /\ task' = [task EXCEPT ![p].at = now]
         /\ pc' = [pc EXCEPT ![p] = "done"]
         /\ grants' = Append(grants, p)
    /\ UNCHANGED <<now, engine0, storeVars, locked, queue, submitted, bucketVars>>

\* the call runs: check, debits and record in one synchronous step
UConsume ==
    /\ \E p \in Procs :
         /\ pc[p] = "called"
         /\ LET r == Consume(engine, now, task[p].id, task[p].n) IN
            /\ engine' = r.t
            /\ result' = [result EXCEPT ![p] = r.ret]
         /\ task' = [task EXCEPT ![p].at = now]
         /\ pc' = [pc EXCEPT ![p] = "done"]
         /\ grants' = Append(grants, p)
    /\ UNCHANGED <<now, engine0, storeVars, locked, queue, submitted, bucketVars>>

UnlockedNext ==
    \/ UCall
    \/ UConsume

UnlockedSpec == UnlockedInit /\ [][UnlockedNext]_vars

\* the callers whose consume returned true
Admitted == {p \in Procs : pc[p] = "done" /\ result[p] = "true"}

\* the estimates of the admitted callers among 1..n, added up
RECURSIVE AdmittedTokens(_)
AdmittedTokens(n) ==
    IF n = 0 THEN 0
    ELSE (IF n \in Admitted THEN task[n].n ELSE 0) + AdmittedTokens(n - 1)

\* C35 as stated: from an engine whose volume bucket holds enough for either
\* of two unlocked consume calls but not for both, some interleaving of the
\* two calls has both return true.  The calls cannot be suspended, so their
\* interleavings are the two orders in which they can run.
C35_Original ==
    \A e1 \in 1..MaxEstimate, e2 \in 1..MaxEstimate :
        LET debt == engine.compensationDebt
            first(x, y)  == Consume(engine, now, "a", x)
            second(x, y) == Consume(first(x, y).t, now, "b", y)
        IN  (/\ Avail(engine.rpmBucket) >= 2 * RpmCost * Scale
             /\ Avail(engine.tpmBucket) >= (Max(e1, e2) + debt) * Scale
             /\ Avail(engine.tpmBucket) < (e1 + e2 + debt) * Scale) =>
                \/ first(e1, e2).ret = "true" /\ second(e1, e2).ret = "true"
                \/ first(e2, e1).ret = "true" /\ second(e2, e1).ret = "true"

\* C35 (amended): unlocked consume calls of concurrent callers never pass
\* admission against a stale balance: with the clock held, whatever the order
\* in which the callers get ready and their calls run, every call that
\* returned true was debited in full from both buckets, so the calls that
\* returned true never add up to more than the buckets held.
C35_NoStaleAdmission ==
    /\ engine.rpmBucket.capacity - engine.rpmBucket.available
          = Cardinality(Admitted) * RpmCost * Scale
    /\ engine.tpmBucket.capacity - engine.tpmBucket.available
          = AdmittedTokens(NumProcs) * Scale

\* two callers were ready at once with estimates that each fit the volume
\* bucket and together do not; their calls ran in the other order than they
\* got ready; the first to run was admitted, the second refused
C35_Witness ==
    \E p \in Procs, q \in Procs :
        /\ p # q
        /\ Len(submitted) >= 2 /\ submitted[1] = p /\ submitted[2] = q
        /\ Len(grants) = 2 /\ grants[1] = q /\ grants[2] = p
        /\ task[p].n > 0 /\ task[q].n > 0
        /\ task[p].n <= Tpm /\ task[q].n <= Tpm
        /\ task[p].n + task[q].n > Tpm
        /\ result[q] = "true"
        /\ result[p] = "false"

----------------------------------------------------------------------------
(* initialize() next to concurrent callers: specification StartupSpec.      *)
(* initialize() does not ask for the gate; it is suspended three times: on  *)
(* the two bucket loads, on loadCompensationDebt and on                     *)
(* loadConsumptionHistory.  Each load is answered with what the storage     *)
(* held when the load was issued.  The callers run consumeAsync behind the  *)
(* gate; the writes of a consume reach the storage at once.  The clock is   *)
(* held.  startup.during collects the callers whose section ran while       *)
(* initialize() was suspended.                                              *)

\* what an earlier run of an idle engine left in the storage
PriorStorage(t, debt) ==
    [rpm     |-> {GetState(t.rpmBucket, 0)},
     tpm     |-> {GetState(t.tpmBucket, 0)},
     debt    |-> debt,
     history |-> StoredHistory]

Suspended == {"buckets", "debt", "history"}

StartupInit ==
    /\ now = 0
    /\ engine = NewThrottle([Config("compensate", NoValue, NoValue)
                               EXCEPT !.storage = TRUE,
                                      !.maxHistoryRecords = MaxRecords + NumProcs], 0)
    /\ BucketIdle
    /\ LockIdle
    /\ CallersIdle
    /\ storage \in {EmptyStorage, PriorStorage(engine, 0), PriorStorage(engine, 1)}
    /\ startup = NoStartup

\* initialize() is called: the two bucket loads are issued
SStart ==
    /\ startup.stage = "idle"
    /\ ~engine.initialized /\ engine.storageEnabled
    /\ startup' = [startup EXCEPT !.stage = "buckets",
                                  !.answer = [rpm |-> storage.rpm, tpm |-> storage.tpm]]
    /\ UNCHANGED <<engineVars, bucketVars, lockVars, task, submitted, grants,
                   engine0, storage>>

\* the bucket loads have resolved; loadCompensationDebt is issued
SBuckets ==
    /\ startup.stage = "buckets"
    /\ engine' = StartupBuckets(engine, startup.answer)
    /\ startup' = [startup EXCEPT !.stage = "debt", !.answer = storage.debt]
    /\ UNCHANGED <<now, bucketVars, lockVars, task, submitted, grants,
                   engine0, storage>>

\* loadCompensationDebt has resolved or rejected; loadConsumptionHistory is
\* issued
SDebt ==
    /\ startup.stage = "debt"
    /\ \E rejected \in BOOLEAN :
         IF rejected
           THEN /\ engine' = StartupFailed(engine)
                /\ startup' = [startup EXCEPT !.stage = "done", !.answer = << >>]
           ELSE /\ engine' = StartupDebt(engine, startup.answer)
                /\ startup' = [startup EXCEPT
                                 !.stage = "history",
                                 !.answer = LoadConsumptionHistory(
                                               storage.history,
                                               engine.maxHistoryRecords)]
    /\ UNCHANGED <<now, bucketVars, lockVars, task, submitted, grants,
                   engine0, storage>>

\* loadConsumptionHistory has resolved or rejected; initialize() returns
SHistory ==
    /\ startup.stage = "history"
    /\ \E rejected \in BOOLEAN :
         engine' = IF rejected THEN StartupFailed(engine)
                   ELSE StartupHistory(engine, now, startup.answer)
    /\ startup' = [startup EXCEPT !.stage = "done", !.answer = << >>]
    /\ UNCHANGED <<now, bucketVars, lockVars, task, submitted, grants,
                   engine0, storage>>

\* a caller calls consumeAsync(IdOf(p), e): withLock asks for the gate
SSubmit ==
    /\ \E p \in Procs, e \in 1..MaxEstimate :
         /\ pc[p] = "idle"
         /\ task' = [task EXCEPT ![p] = [op |-> "consumeAsync", id |-> IdOf(p),
                                          n |-> e, at |-> NoValue]]
         /\ LET a == Acquire(Lock, p) IN
            /\ locked' = a.locked
            /\ queue' = a.queue
            /\ pc' = [pc EXCEPT ![p] = IF a.granted THEN "granted" ELSE "waiting"]
    /\ UNCHANGED <<engineVars, bucketVars, result, submitted, grants, engine0,
                   storeVars>>

\* the section of a granted caller runs
SRun ==
    /\ \E p \in Procs :
         /\ pc[p] = "granted"
         /\ LET r == Section(engine, now, task[p])
                record == NewRecord(now, task[p].id, task[p].n,
                                    engine.compensationDebt)
            IN  /\ engine' = r.t
                /\ result' = [result EXCEPT ![p] = r.ret]
                /\ storage' = IF r.ret = "true"
                                THEN Persisted(storage, r.t, now, record)
                                ELSE storage
         /\ startup' = IF startup.stage \in Suspended
                         THEN [startup EXCEPT !.during = @ \cup {p}]
                         ELSE startup
         /\ task' = [task EXCEPT ![p].at = now]
         /\ pc' = [pc EXCEPT ![p] = "releasing"]
    /\ UNCHANGED <<now, locked, queue, submitted, grants, engine0, bucketVars>>

\* finally { this.release() }
SRelease ==
    /\ \E p \in Procs :
         /\ pc[p] = "releasing"
         /\ LET r == Release(Lock) IN
            /\ locked' = r.locked
            /\ queue' = r.queue
            /\ pc' = [q \in Procs |->
                        IF q = p THEN "done"
                        ELSE IF q = r.next THEN "granted" ELSE pc[q]]
    /\ UNCHANGED <<engineVars, bucketVars, result, task, submitted, grants,
                   engine0, storeVars>>

StartupNext ==
    \/ SStart
    \/ SBuckets
    \/ SDebt
    \/ SHistory
    \/ SSubmit
    \/ SRun
    \/ SRelease

StartupSpec == StartupInit /\ [][StartupNext]_vars

\* the callers whose consumeAsync returned true while initialize() was
\* suspended
WonDuring == {p \in startup.during : result[p] = "true"}

\* the estimates of those callers among 1..n, added up
RECURSIVE WonTokens(_)
WonTokens(n) ==
    IF n = 0 THEN 0
    ELSE (IF n \in WonDuring THEN task[n].n ELSE 0) + WonTokens(n - 1)

\* C40: initialize() does not lose concurrent work: once it has finished,
\* the record of every consumeAsync that returned true while it was
\* suspended is in the ledger (unless the ledger is full), the debits of
\* those calls are reflected in both buckets, and a debt one of them paid is
\* not owed again.
C40_StartupKeepsWork ==
    startup.stage = "done" =>
        /\ \A p \in WonDuring :
              \/ \E i \in 1..Len(engine.consumptionHistory) :
                    engine.consumptionHistory[i].requestId = IdOf(p)
              \/ Len(engine.consumptionHistory) >= engine.maxHistoryRecords
        /\ Used(engine.rpmBucket) >= Cardinality(WonDuring) * RpmCost * Scale
        /\ Used(engine.tpmBucket) >= WonTokens(NumProcs) * Scale
        /\ \A i \in 1..Len(engine.consumptionHistory) :
              (/\ engine.consumptionHistory[i].compensationDebt > 0
               /\ \E p \in WonDuring :
                     engine.consumptionHistory[i].requestId = IdOf(p)) =>
                  engine.compensationDebt = 0

====
